---------------------------- MODULE Spec2Model ----------------------------
(***************************************************************************)
(* Corelang: security context and policy evaluator, effect handler        *)
(* registry with audit log, version registry, and the VM's function and   *)
(* effect entry points, as state machines translated from the TypeScript  *)
(* sources.                                                                *)
(***************************************************************************)
EXTENDS Integers, Sequences, FiniteSets, TLC

VARIABLES
    roles,        \* SecurityContext.roles      : role name -> RoleNode
    policies,     \* SecurityContext.policies   : insertion-ordered Map, as a sequence of PolicyNode
    functions,    \* SecurityContext.functions  : function name -> FunctionNode (security part)
    polCall,      \* the last call made on the security context / evaluator and what it returned
    handlers,     \* EffectHandlerRegistry.handlers : the names that have a handler
    tables,       \* DatabaseEffectHandler.tables   : table name -> id -> stored record
    files,        \* FilesystemEffectHandler.files  : path -> content
    logs,         \* LoggingEffectHandler.logs      : sequence of LogEntry
    heap,         \* the AuditLogEntry objects ever created, by reference (1, 2, ...)
    auditLogs,    \* AuditLogger.logs               : array of references to entries
    returned,     \* the array the last getAuditLogs call handed to its caller
    effCall,      \* the last call of EffectHandlerRegistry.execute and how it went
    dispatched,   \* how many times EffectHandlerRegistry.execute has been called
    chains,       \* VersionRegistry.chains : name -> VersionChain
    verCall,      \* the last call made on the version registry and what it returned
    registers,    \* how many times VersionRegistry.register has been called
    vmModule,     \* VMState.module    : the functions Map, in insertion order
    vmPrincipal,  \* VMState.principal
    vmFrames,     \* the executeFunction calls in progress, innermost last: each one's
                  \* currentFunction (by key), ip, halted, locals and args
    vmStack,      \* VMState.stack     : the one array every frame's state refers to
    vmStatus,     \* "idle", "running", "returned" or "threw" : the promise VM.execute returned
    vmResult,     \* what that promise settled with
    vmCall,       \* the last step of the VM: what it did and to which function
    vmTrace,      \* the instructions this execution has run, as [fn, ip]
    vmCallers,    \* history: for each frame, the operand stack its caller had left when it was entered
    executes,     \* how many times VM.execute has been called
    vmSuspended,  \* the executions of VM.execute that wait at an await while another runs:
                  \* each one's own state object
    migrations,   \* MigrationRegistry.migrations : function name -> array of MigrationFunction
    migCall,      \* the last call made on the migration registry and what it returned
    modules,      \* CompilerContext.modules     : module name -> ModuleNode
    diagnostics,  \* CompilerContext.diagnostics : the diagnostics built so far, as [severity, code]
    ctxCall       \* the last call made on the compiler context and what it did

secVars == <<roles, policies, functions, polCall>>
effVars == <<handlers, tables, files, logs, heap, auditLogs, returned, effCall, dispatched>>
verVars == <<chains, verCall, registers>>
vmVars == <<vmModule, vmPrincipal, vmFrames, vmStack, vmStatus, vmResult, vmCall, vmTrace, vmCallers,
           executes>>
migVars == <<migrations, migCall>>
ctxVars == <<modules, diagnostics, ctxCall>>
conVars == <<vmSuspended>>
vars == <<secVars, effVars, verVars, vmVars, migVars, ctxVars, conVars>>
\* what the operations of one component leave alone
notSec == <<effVars, verVars, vmVars, migVars, ctxVars, conVars>>
notEff == <<secVars, verVars, vmVars, migVars, ctxVars, conVars>>
notVer == <<secVars, effVars, vmVars, migVars, ctxVars, conVars>>
notVM == <<secVars, effVars, verVars, migVars, ctxVars, conVars>>
notMig == <<secVars, effVars, vmVars, ctxVars, conVars>>
notCtx == <<secVars, effVars, vmVars, migVars, conVars>>

-----------------------------------------------------------------------------
(* Strings.  Names are TLA+ strings; where the code looks inside a string  *)
(* (split, includes, regular expressions, <) the string's characters are   *)
(* taken from Chars.                                                       *)

Chars(s) ==
    CASE s = "" -> <<>>
      [] s = "data.access" -> <<"d","a","t","a",".","a","c","c","e","s","s">>
      [] s = "user.write"  -> <<"u","s","e","r",".","w","r","i","t","e">>
      [] s = "access_data" -> <<"a","c","c","e","s","s","_","d","a","t","a">>
      [] s = "report"      -> <<"r","e","p","o","r","t">>
      [] s = "greet"       -> <<"g","r","e","e","t">>
      [] s = "missing"     -> <<"m","i","s","s","i","n","g">>
      [] s = "outer"       -> <<"o","u","t","e","r">>
      [] s = "two_and_let" -> <<"t","w","o","_","a","n","d","_","l","e","t">>
      [] s = "let_and_two" -> <<"l","e","t","_","a","n","d","_","t","w","o">>
      [] s = "audited"     -> <<"a","u","d","i","t","e","d">>
      [] s = "last_of"     -> <<"l","a","s","t","_","o","f">>
      [] s = "inner"       -> <<"i","n","n","e","r">>
      [] s = "1.0.0"       -> <<"1",".","0",".","0">>
      [] s = "v1"          -> <<"v","1">>
      [] s = "2.0.0"       -> <<"2",".","0",".","0">>
      [] s = "3.0.0"       -> <<"3",".","0",".","0">>
      [] s = "1.1.0"       -> <<"1",".","1",".","0">>
      [] s = "0.9.0"       -> <<"0",".","9",".","0">>
      [] s = "db"          -> <<"d","b">>
      [] s = "users"       -> <<"u","s","e","r","s">>
      [] s = "1.0.0-beta"  -> <<"1",".","0",".","0","-","b","e","t","a">>
      [] s = "1.0.0-rc"    -> <<"1",".","0",".","0","-","r","c">>
      [] s = "1.0.0+b7"    -> <<"1",".","0",".","0","+","b","7">>
      [] s = "1.x"         -> <<"1",".","x">>
      [] s = "2.0.x"       -> <<"2",".","0",".","x">>
      [] s = "^1.0.0"      -> <<"^","1",".","0",".","0">>
      [] s = "<2.0.0"      -> <<"<","2",".","0",".","0">>
      [] s = ">=1.0.0 <2.0.0" ->
             <<">","=","1",".","0",".","0"," ","<","2",".","0",".","0">>

Digits == {"0","1","2","3","4","5","6","7","8","9"}
Letters == {"a","b","c","d","e","f","g","h","i","j","k","l","m","n","o","p","q","r","s","t","u","v","w","x","y","z"}

\* UTF-16 code unit order of the characters a version string may hold.
CharOrder == <<"+","-",".","0","1","2","3","4","5","6","7","8","9",
               "a","b","c","d","e","f","g","h","i","j","k","l","m",
               "n","o","p","q","r","s","t","u","v","w","x","y","z">>
Code(c) == CHOOSE i \in 1..Len(CharOrder) : CharOrder[i] = c

\* JavaScript's < on strings: lexicographic by code unit, a proper prefix is less.
RECURSIVE StrLess(_, _)
StrLess(a, b) ==
    IF b = <<>> THEN FALSE
    ELSE IF a = <<>> THEN TRUE
    ELSE IF Head(a) # Head(b) THEN Code(Head(a)) < Code(Head(b))
    ELSE StrLess(Tail(a), Tail(b))

\* String.prototype.includes
Includes(s, t) ==
    \E i \in 1..(Len(s) + 1) : i + Len(t) - 1 <= Len(s) /\ SubSeq(s, i, i + Len(t) - 1) = t

\* String.prototype.split('.'), as the set of parts (the code only asks: some part ...)
RECURSIVE SplitDot(_, _)
SplitDot(s, cur) ==
    IF s = <<>> THEN {cur}
    ELSE IF Head(s) = "." THEN {cur} \cup SplitDot(Tail(s), <<>>)
    ELSE SplitDot(Tail(s), Append(cur, Head(s)))

\* The names of the model are lower case already: toLowerCase leaves them as they are.
toLowerCase(s) == s

RECURSIVE RunLen(_, _, _)
RunLen(s, i, Class) ==
    IF i <= Len(s) /\ s[i] \in Class THEN 1 + RunLen(s, i + 1, Class) ELSE 0

RECURSIVE parseInt(_)
parseInt(ds) ==
    IF ds = <<>> THEN 0
    ELSE 10 * parseInt(SubSeq(ds, 1, Len(ds) - 1)) + (Code(ds[Len(ds)]) - Code("0"))

Range(seq) == {seq[i] : i \in 1..Len(seq)}

-----------------------------------------------------------------------------
(* Semantic versions (compiler/versioning/semver.ts)                       *)

NullVersion == [major |-> -1, minor |-> -1, patch |-> -1, prerelease |-> <<>>, build |-> <<>>]

\* parseVersion: strip /^:?v/, then
\* /^(\d+)(?:\.(\d+))?(?:\.(\d+))?(?:-([a-zA-Z0-9.-]+))?(?:\+([a-zA-Z0-9.-]+))?$/ ;
\* an absent prerelease or build is undefined, here the empty sequence.
\* Each group is greedy and no later group can start with a character an earlier one
\* takes, so the match is read left to right, one group per operator.
IdClass == Digits \cup Letters \cup {".", "-"}

\* length of an optional group: the character `mark` followed by at least one of Class
GroupLen(c, p, mark, Class) ==
    IF p <= Len(c) /\ c[p] = mark THEN RunLen(c, p + 1, Class) ELSE 0

\* where the text goes on after an optional group of length n starting at p
After(p, n) == IF n > 0 THEN p + 1 + n ELSE p

Group(c, p, n) == IF n > 0 THEN SubSeq(c, p + 1, p + n) ELSE <<>>

parseBuild(c, p, major, minor, patch, pre) ==
    IF After(p, GroupLen(c, p, "+", IdClass)) # Len(c) + 1 THEN NullVersion
    ELSE [major |-> major, minor |-> minor, patch |-> patch, prerelease |-> pre,
          build |-> Group(c, p, GroupLen(c, p, "+", IdClass))]

parsePrerelease(c, p, major, minor, patch) ==
    parseBuild(c, After(p, GroupLen(c, p, "-", IdClass)), major, minor, patch,
               Group(c, p, GroupLen(c, p, "-", IdClass)))

parsePatch(c, p, major, minor) ==
    parsePrerelease(c, After(p, GroupLen(c, p, ".", Digits)), major, minor,
                    parseInt(Group(c, p, GroupLen(c, p, ".", Digits))))

parseMinor(c, p, major) ==
    parsePatch(c, After(p, GroupLen(c, p, ".", Digits)), major,
               parseInt(Group(c, p, GroupLen(c, p, ".", Digits))))

stripPrefix(s0) ==
    IF Len(s0) >= 2 /\ s0[1] = ":" /\ s0[2] = "v" THEN SubSeq(s0, 3, Len(s0))
    ELSE IF Len(s0) >= 1 /\ s0[1] = "v" THEN Tail(s0)
    ELSE s0

parseCleaned(c) ==
    IF RunLen(c, 1, Digits) = 0 THEN NullVersion
    ELSE parseMinor(c, 1 + RunLen(c, 1, Digits), parseInt(SubSeq(c, 1, RunLen(c, 1, Digits))))

parseVersion(versionString) == parseCleaned(stripPrefix(Chars(versionString)))

\* compareVersions: -1 Less, 0 Equal, 1 Greater
compareVersions(a, b) ==
    IF a.major # b.major THEN (IF a.major > b.major THEN 1 ELSE -1)
    ELSE IF a.minor # b.minor THEN (IF a.minor > b.minor THEN 1 ELSE -1)
    ELSE IF a.patch # b.patch THEN (IF a.patch > b.patch THEN 1 ELSE -1)
    ELSE IF a.prerelease # b.prerelease THEN
             IF a.prerelease = <<>> THEN 1
             ELSE IF b.prerelease = <<>> THEN -1
             ELSE IF StrLess(b.prerelease, a.prerelease) THEN 1
             ELSE IF StrLess(a.prerelease, b.prerelease) THEN -1
             ELSE 0
    ELSE 0

\* parseConstraint returns null
NullConstraint == [type |-> "null"]

Spaces == {" "}
VersionClass == Digits \cup {"v", "."}

\* String.prototype.trim
RECURSIVE trim(_)
trim(c) ==
    IF c # <<>> /\ Head(c) \in Spaces THEN trim(Tail(c))
    ELSE IF c # <<>> /\ c[Len(c)] \in Spaces THEN trim(SubSeq(c, 1, Len(c) - 1))
    ELSE c

\* length of the operator at p among those given, longest first: (>=?|<=?) and (<|<=)
\* both end up with the two-character operator when "=" follows, since nothing
\* after them can start with "="
opLen(c, p, firsts) ==
    IF p <= Len(c) /\ c[p] \in firsts
    THEN (IF p + 1 <= Len(c) /\ c[p + 1] = "=" THEN 2 ELSE 1)
    ELSE 0

\* the range built from the groups of
\* /^(>=?|<=?)?([v\d.]+)\s*(<|<=)?\s*([v\d.]+)?$/ : the groups start at 1, p2, p3, p4
rangeOf(c, p2, n2, p3, n3, p4, n4) ==
    IF n2 = 0 \/ p4 + n4 # Len(c) + 1 THEN NullConstraint
    ELSE IF parseCleaned(stripPrefix(SubSeq(c, p2, p2 + n2 - 1))) = NullVersion THEN NullConstraint
    ELSE [type |-> "range",
          min |-> parseCleaned(stripPrefix(SubSeq(c, p2, p2 + n2 - 1))),
          max |-> IF n4 > 0 THEN parseCleaned(stripPrefix(SubSeq(c, p4, p4 + n4 - 1)))
                  ELSE NullVersion,
          minInclusive |-> (p2 = 1 \/ SubSeq(c, 1, p2 - 1) = <<">", "=">>),
          maxInclusive |-> (SubSeq(c, p3, p3 + n3 - 1) = <<"<", "=">>)]

rangeFrom4(c, p2, n2, p3, n3, p4) == rangeOf(c, p2, n2, p3, n3, p4, RunLen(c, p4, VersionClass))
rangeFrom3(c, p2, n2, p3) ==
    rangeFrom4(c, p2, n2, p3, opLen(c, p3, {"<"}),
               p3 + opLen(c, p3, {"<"}) + RunLen(c, p3 + opLen(c, p3, {"<"}), Spaces))
rangeFrom2(c, p2) ==
    rangeFrom3(c, p2, RunLen(c, p2, VersionClass),
               p2 + RunLen(c, p2, VersionClass)
                  + RunLen(c, p2 + RunLen(c, p2, VersionClass), Spaces))
parseRange(c) == rangeFrom2(c, 1 + opLen(c, 1, {">", "<"}))

parseTrimmed(trimmed) ==
    IF trimmed \in {<<"l","a","t","e","s","t">>, <<"*">>} THEN [type |-> "latest"]
    ELSE IF trimmed \in {<<"s","t","a","b","l","e">>,
                         <<"s","t","a","b","l","e","-","o","n","l","y">>}
    THEN [type |-> "stable"]
    ELSE IF trimmed \in {<<"a","n","y">>,
                         <<"a","l","l","-","v","e","r","s","i","o","n","s">>}
    THEN [type |-> "any"]
    ELSE IF /\ trimmed # <<>> /\ Head(trimmed) = "^"
            /\ parseCleaned(stripPrefix(Tail(trimmed))) # NullVersion
    THEN [type |-> "caret", base |-> parseCleaned(stripPrefix(Tail(trimmed)))]
    ELSE IF /\ trimmed # <<>> /\ Head(trimmed) = "~"
            /\ parseCleaned(stripPrefix(Tail(trimmed))) # NullVersion
    THEN [type |-> "tilde", base |-> parseCleaned(stripPrefix(Tail(trimmed)))]
    ELSE IF /\ Range(trimmed) \cap {"<", ">", "="} = {}
            /\ parseCleaned(stripPrefix(trimmed)) # NullVersion
    THEN [type |-> "exact", version |-> parseCleaned(stripPrefix(trimmed))]
    ELSE parseRange(trimmed)

parseConstraint(constraintString) == parseTrimmed(trim(Chars(constraintString)))

\* satisfiesConstraint (semver.ts).  compareVersions(...) >= Equal is: not Less.
satisfiesConstraint(version, constraint) ==
    CASE constraint.type \in {"any", "latest"} -> TRUE
      [] constraint.type = "stable" -> version.prerelease = <<>>
      [] constraint.type = "exact" -> compareVersions(version, constraint.version) = 0
      [] constraint.type = "caret" ->
            /\ compareVersions(version, constraint.base) >= 0
            /\ compareVersions(version, [NullVersion EXCEPT !.major = constraint.base.major + 1,
                                                           !.minor = 0, !.patch = 0]) = -1
      [] constraint.type = "tilde" ->
            /\ compareVersions(version, constraint.base) >= 0
            /\ compareVersions(version, [NullVersion EXCEPT !.major = constraint.base.major,
                                                           !.minor = constraint.base.minor + 1,
                                                           !.patch = 0]) = -1
      [] constraint.type = "range" ->
            /\ constraint.min # NullVersion =>
                  IF constraint.minInclusive THEN compareVersions(version, constraint.min) # -1
                  ELSE compareVersions(version, constraint.min) = 1
            /\ constraint.max # NullVersion =>
                  IF constraint.maxInclusive THEN compareVersions(version, constraint.max) # 1
                  ELSE compareVersions(version, constraint.max) = -1
      [] OTHER -> FALSE

-----------------------------------------------------------------------------
(* Security context (compiler/security/analyzer.ts)                        *)

RoleNames == {"user", "admin"}
PolicyNames == {"p1", "p2"}
FunctionNames == {"access_data"}

\* An absent rule.versionConstraint (undefined)
NoConstraint == [type |-> "none"]

RuleUniverse ==
    { [effect |-> "allow", roles |-> <<"user">>, permissions |-> <<"data.access">>,
       versionConstraint |-> NoConstraint],
      [effect |-> "deny", roles |-> <<"user">>, permissions |-> <<"data.access">>,
       versionConstraint |-> NoConstraint],
      [effect |-> "deny", roles |-> <<"admin">>, permissions |-> <<"data.access">>,
       versionConstraint |-> [type |-> "stable-only"]],
      [effect |-> "allow", roles |-> <<"user">>, permissions |-> <<"user.write">>,
       versionConstraint |-> NoConstraint] }

\* The role declarations that may be registered.
RoleUniverse ==
    { [name |-> "user",  permissions |-> <<"data.access">>, inherits |-> <<>>],
      [name |-> "user",  permissions |-> <<"data.access">>, inherits |-> <<"admin">>],
      [name |-> "admin", permissions |-> <<"user.write">>,  inherits |-> <<>>] }

\* The function declarations that may be registered (their security attributes).
FunctionUniverse ==
    { [name |-> "access_data", requiredRoles |-> <<"user">>, requiredPermissions |-> <<"data.access">>],
      [name |-> "access_data", requiredRoles |-> <<"user">>, requiredPermissions |-> <<>>],
      [name |-> "access_data", requiredRoles |-> <<"admin">>, requiredPermissions |-> <<>>] }

\* At most this many rules in all registered policies together.
MaxTotalRules == 3

RuleSeqs == {<<r>> : r \in RuleUniverse} \cup {<<r1, r2>> : r1 \in RuleUniverse, r2 \in RuleUniverse}

NoRule == [effect |-> "none"]
NoDecision == [allowed |-> FALSE, reason |-> "none", matchedRule |-> NoRule, policy |-> ""]

SecInit ==
    /\ roles = <<>>
    /\ policies = <<>>
    /\ functions = <<>>
    /\ polCall = [op |-> "init", role |-> "", functionName |-> "", functionVersion |-> "",
                  decision |-> NoDecision]

Registered(op) == [op |-> op, role |-> "", functionName |-> "", functionVersion |-> "",
                   decision |-> NoDecision]

\* Map.set on a name-keyed Map held as a function
MapSet(m, k, v) == [x \in (DOMAIN m) \cup {k} |-> IF x = k THEN v ELSE m[x]]

\* Map.set on an insertion-ordered Map held as a sequence of named nodes:
\* an existing key keeps its place, a new key goes last.
OrderedSet(seq, node) ==
    IF \E i \in 1..Len(seq) : seq[i].name = node.name
    THEN [i \in 1..Len(seq) |-> IF seq[i].name = node.name THEN node ELSE seq[i]]
    ELSE Append(seq, node)

registerRole(role) ==
    /\ roles' = MapSet(roles, role.name, role)
    /\ polCall' = Registered("registerRole")
    /\ UNCHANGED <<policies, functions>>

registerPolicy(policy) ==
    /\ policies' = OrderedSet(policies, policy)
    /\ polCall' = Registered("registerPolicy")
    /\ UNCHANGED <<roles, functions>>

registerFunction(fn) ==
    /\ functions' = MapSet(functions, fn.name, fn)
    /\ polCall' = Registered("registerFunction")
    /\ UNCHANGED <<roles, policies>>

-----------------------------------------------------------------------------
(* Policy evaluator (PolicyEvaluator, src/unnamed/part_005)                *)

\* [...new Set(xs)]: first occurrences, in order
RECURSIVE Dedup(_)
Dedup(xs) ==
    IF xs = <<>> THEN <<>>
    ELSE LET init == Dedup(SubSeq(xs, 1, Len(xs) - 1))
         IN  IF xs[Len(xs)] \in Range(init) THEN init ELSE Append(init, xs[Len(xs)])

\* getEffectiveRoles(roleName, visited): visited is one Set shared by the whole
\* recursion, so it is threaded through: the result is [roles, visited].
RECURSIVE getEffectiveRolesRec(_, _, _)
getEffectiveRolesRec(ctxRoles, roleName, visited) ==
    IF roleName \in visited THEN [roles |-> <<>>, visited |-> visited]
    ELSE LET v1 == visited \cup {roleName}
         IN  IF roleName \notin DOMAIN ctxRoles THEN [roles |-> <<roleName>>, visited |-> v1]
             ELSE LET parents == ctxRoles[roleName].inherits
                      \* the for loop over role.inherits, left to right
                      Loop[i \in 0..Len(parents)] ==
                          IF i = 0 THEN [roles |-> <<roleName>>, visited |-> v1]
                          ELSE LET sub == getEffectiveRolesRec(ctxRoles, parents[i], Loop[i - 1].visited)
                               IN  [roles |-> Loop[i - 1].roles \o sub.roles, visited |-> sub.visited]
                      done == Loop[Len(parents)]
                  IN  [roles |-> Dedup(done.roles), visited |-> done.visited]

\* The mutant: a role stands for itself only.
getOwnRole(roleName) == <<roleName>>

getEffectiveRoles(roleName) == getEffectiveRolesRec(roles, roleName, {}).roles

checkPermissions(fn, rulePermissions) ==
    IF Len(fn.requiredPermissions) > 0
    THEN \E perm \in Range(fn.requiredPermissions) : perm \in Range(rulePermissions)
    ELSE \E perm \in Range(rulePermissions) :
            \E part \in SplitDot(Chars(perm), <<>>) :
                Includes(toLowerCase(Chars(fn.name)), toLowerCase(part))

\* The mutant: every version that parses satisfies every constraint.
checkVersionParses(versionStr, constraint) == parseVersion(versionStr) # NullVersion

checkVersionConstraint(versionStr, constraint) ==
    LET version == parseVersion(versionStr)
    IN  IF version = NullVersion THEN FALSE
        ELSE CASE constraint.type = "all" -> TRUE
               [] constraint.type = "stable-only" -> version.prerelease = <<>>
               [] constraint.type = "specific" ->
                      \E v \in Range(constraint.versions) :
                          LET cv == parseVersion(v)
                          IN  /\ cv # NullVersion
                              /\ version.major = cv.major
                              /\ version.minor = cv.minor
                              /\ version.patch = cv.patch
               [] constraint.type = "range" ->
                      /\ parseConstraint(constraint.range) # NullConstraint
                      /\ satisfiesConstraint(version, parseConstraint(constraint.range))
               [] OTHER -> FALSE

\* The test one rule goes through in evaluatePolicy's loop
ruleMatches(rule, effectiveRoles, functionName, functionVersion) ==
    /\ \E ruleRole \in Range(rule.roles) : ruleRole \in Range(effectiveRoles)
    /\ functionName \in DOMAIN functions
    /\ checkPermissions(functions[functionName], rule.permissions)
    /\ (rule.versionConstraint # NoConstraint /\ functionVersion # "")
          => checkVersionConstraint(functionVersion, rule.versionConstraint)

RECURSIVE SelectSeq2(_, _, _, _, _)
SelectSeq2(rules, policyName, effectiveRoles, functionName, functionVersion) ==
    IF rules = <<>> THEN <<>>
    ELSE LET rule == Head(rules)
             rest == SelectSeq2(Tail(rules), policyName, effectiveRoles, functionName, functionVersion)
         IN  IF ruleMatches(rule, effectiveRoles, functionName, functionVersion)
             THEN <<[allowed |-> rule.effect = "allow",
                     reason |-> IF rule.effect = "allow" THEN "policy-allows" ELSE "policy-denies",
                     matchedRule |-> rule,
                     policy |-> policyName]>> \o rest
             ELSE rest

evaluatePolicy(policy, effectiveRoles, functionName, functionVersion) ==
    SelectSeq2(policy.rules, policy.name, effectiveRoles, functionName, functionVersion)

\* every decision of every policy, in policy order then rule order
RECURSIVE allDecisions(_, _, _, _)
allDecisions(pols, effectiveRoles, functionName, functionVersion) ==
    IF pols = <<>> THEN <<>>
    ELSE evaluatePolicy(Head(pols), effectiveRoles, functionName, functionVersion)
         \o allDecisions(Tail(pols), effectiveRoles, functionName, functionVersion)

IsDeny(d) == d.matchedRule.effect = "deny"
IsAllow(d) == d.matchedRule.effect = "allow"

\* The mutant: the first matching decision wins, whatever its effect.
evaluateFirstMatch(role, functionName, functionVersion) ==
    IF role \notin DOMAIN roles
    THEN [allowed |-> FALSE, reason |-> "role-does-not-exist", matchedRule |-> NoRule, policy |-> ""]
    ELSE LET ds == allDecisions(policies, getEffectiveRoles(role), functionName, functionVersion)
         IN  IF Len(ds) > 0 THEN ds[1]
             ELSE [allowed |-> FALSE, reason |-> "no-matching-rule", matchedRule |-> NoRule, policy |-> ""]

evaluate(role, functionName, functionVersion) ==
    IF role \notin DOMAIN roles
    THEN [allowed |-> FALSE, reason |-> "role-does-not-exist", matchedRule |-> NoRule, policy |-> ""]
    ELSE LET effectiveRoles == getEffectiveRoles(role)
             ds == allDecisions(policies, effectiveRoles, functionName, functionVersion)
             denyDecisions == SelectSeq(ds, IsDeny)
             allowDecisions == SelectSeq(ds, IsAllow)
         IN  IF Len(denyDecisions) > 0 THEN denyDecisions[1]
             ELSE IF Len(allowDecisions) > 0 THEN allowDecisions[1]
             ELSE IF /\ Len(policies) = 0
                     /\ functionName \in DOMAIN functions
                     /\ Len(functions[functionName].requiredRoles) > 0
                     /\ \E requiredRole \in Range(functions[functionName].requiredRoles) :
                            requiredRole \in Range(effectiveRoles)
                  THEN [allowed |-> TRUE, reason |-> "has-required-role", matchedRule |-> NoRule, policy |-> ""]
             ELSE [allowed |-> FALSE, reason |-> "no-matching-rule", matchedRule |-> NoRule, policy |-> ""]

RequestVersions == {"", "1.0.0", "1.0.0-beta"}

Evaluate(role, functionName, functionVersion) ==
    /\ polCall' = [op |-> "evaluate", role |-> role, functionName |-> functionName,
                   functionVersion |-> functionVersion,
                   decision |-> evaluate(role, functionName, functionVersion)]
    /\ UNCHANGED <<roles, policies, functions>>

RECURSIVE TotalRules(_)
TotalRules(pols) == IF pols = <<>> THEN 0 ELSE Len(Head(pols).rules) + TotalRules(Tail(pols))

NextPolicy ==
    \/ \E role \in RoleUniverse : registerRole(role) /\ UNCHANGED notSec
    \/ \E name \in PolicyNames, rules \in RuleSeqs :
          /\ TotalRules(OrderedSet(policies, [name |-> name, rules |-> rules])) <= MaxTotalRules
          /\ registerPolicy([name |-> name, rules |-> rules])
          /\ UNCHANGED notSec
    \/ \E fn \in FunctionUniverse : registerFunction(fn) /\ UNCHANGED notSec
    \/ \E role \in RoleNames, fname \in FunctionNames, ver \in RequestVersions :
          Evaluate(role, fname, ver) /\ UNCHANGED notSec

\* Rules that carry a version constraint of each kind; a range is kept as written.
VersionConstraints ==
    { NoConstraint, [type |-> "all"], [type |-> "stable-only"],
      [type |-> "specific", versions |-> <<"1.x", "2.0.0">>],
      [type |-> "range", range |-> ">=1.0.0 <2.0.0"],
      [type |-> "range", range |-> "<2.0.0"],
      [type |-> "range", range |-> "^1.0.0"],
      [type |-> "range", range |-> "2.0.x"] }
ConstrainedRules ==
    { [effect |-> effect, roles |-> <<"user">>, permissions |-> <<"data.access">>,
       versionConstraint |-> constraint] :
      effect \in {"allow", "deny"}, constraint \in VersionConstraints }
ConstraintVersions == {"", "1.0.0", "1.0.0-beta", "2.0.0", "3.0.0", "1.x"}

NextConstraint ==
    \/ \E role \in RoleUniverse : registerRole(role) /\ UNCHANGED notSec
    \/ \E rule \in ConstrainedRules :
          registerPolicy([name |-> "p1", rules |-> <<rule>>]) /\ UNCHANGED notSec
    \/ \E fn \in FunctionUniverse : registerFunction(fn) /\ UNCHANGED notSec
    \/ \E role \in RoleNames, fname \in FunctionNames, ver \in ConstraintVersions :
          Evaluate(role, fname, ver) /\ UNCHANGED notSec


-----------------------------------------------------------------------------
(* Role queries of the security context and the security analyzer            *)
(* (compiler/security/analyzer.ts).  A query that recurses without end        *)
(* exhausts the call stack and throws RangeError; the answer of a query is    *)
(* "true", "false" or "RangeError".                                           *)

\* The depth of recursion at which the call stack is exhausted.  The role graphs
\* below have three roles, so a recursion that visits no role twice stays below it.
MaxStack == 6

\* The mutant: only the permissions the role lists itself.
roleHasPermissionDirect(roleName, permissionName) ==
    IF roleName \in DOMAIN roles /\ permissionName \in Range(roles[roleName].permissions)
    THEN "true" ELSE "false"

RECURSIVE roleHasPermissionAt(_, _, _)
RECURSIVE inheritedPermission(_, _, _)

\* the for loop over role.inherits: the first parent that has the permission
\* returns true, a parent whose call throws ends the loop
inheritedPermission(parents, permissionName, depth) ==
    IF parents = <<>> THEN "false"
    ELSE IF roleHasPermissionAt(Head(parents), permissionName, depth) = "false"
    THEN inheritedPermission(Tail(parents), permissionName, depth)
    ELSE roleHasPermissionAt(Head(parents), permissionName, depth)

\* roleHasPermission as the frame at this depth of the stack
roleHasPermissionAt(roleName, permissionName, depth) ==
    IF depth > MaxStack THEN "RangeError"
    ELSE IF roleName \notin DOMAIN roles THEN "false"
    ELSE IF permissionName \in Range(roles[roleName].permissions) THEN "true"
    ELSE inheritedPermission(roles[roleName].inherits, permissionName, depth + 1)

roleHasPermission(roleName, permissionName) == roleHasPermissionAt(roleName, permissionName, 0)

\* getRolePermissions(roleName, visited): one visited Set for the whole recursion
RECURSIVE getRolePermissionsRec(_, _)
RECURSIVE inheritedPermissions(_, _, _)

inheritedPermissions(parents, permissions, visited) ==
    IF parents = <<>> THEN [permissions |-> permissions, visited |-> visited]
    ELSE inheritedPermissions(Tail(parents),
                              permissions \o getRolePermissionsRec(Head(parents), visited).permissions,
                              getRolePermissionsRec(Head(parents), visited).visited)

getRolePermissionsRec(roleName, visited) ==
    IF roleName \notin DOMAIN roles \/ roleName \in visited
    THEN [permissions |-> <<>>, visited |-> visited]
    ELSE [permissions |-> Dedup(inheritedPermissions(roles[roleName].inherits,
                                                     roles[roleName].permissions,
                                                     visited \cup {roleName}).permissions),
          visited |-> inheritedPermissions(roles[roleName].inherits,
                                           roles[roleName].permissions,
                                           visited \cup {roleName}).visited]

getRolePermissions(roleName) == getRolePermissionsRec(roleName, {}).permissions

\* roleInheritsFrom(roleName, ancestorName, visited): one visited Set as well
RECURSIVE roleInheritsFromRec(_, _, _)
RECURSIVE anyInheritsFrom(_, _, _)

anyInheritsFrom(parents, ancestorName, visited) ==
    IF parents = <<>> THEN [found |-> FALSE, visited |-> visited]
    ELSE IF roleInheritsFromRec(Head(parents), ancestorName, visited).found
    THEN [found |-> TRUE, visited |-> visited]
    ELSE anyInheritsFrom(Tail(parents), ancestorName,
                         roleInheritsFromRec(Head(parents), ancestorName, visited).visited)

roleInheritsFromRec(roleName, ancestorName, visited) ==
    IF roleName = ancestorName THEN [found |-> TRUE, visited |-> visited]
    ELSE IF roleName \in visited \/ roleName \notin DOMAIN roles
    THEN [found |-> FALSE, visited |-> visited]
    ELSE anyInheritsFrom(roles[roleName].inherits, ancestorName, visited \cup {roleName})

roleInheritsFrom(roleName, ancestorName) == roleInheritsFromRec(roleName, ancestorName, {}).found

\* the loop over fn.security.requiredPermissions
RECURSIVE anyRequiredPermission(_, _)
anyRequiredPermission(roleName, requiredPermissions) ==
    IF requiredPermissions = <<>> THEN "false"
    ELSE IF roleHasPermission(roleName, Head(requiredPermissions)) = "false"
    THEN anyRequiredPermission(roleName, Tail(requiredPermissions))
    ELSE roleHasPermission(roleName, Head(requiredPermissions))

canRoleAccessFunction(roleName, functionName) ==
    IF functionName \notin DOMAIN functions THEN "false"
    ELSE IF \E requiredRole \in Range(functions[functionName].requiredRoles) :
                requiredRole = roleName \/ roleInheritsFrom(roleName, requiredRole)
    THEN "true"
    ELSE anyRequiredPermission(roleName, functions[functionName].requiredPermissions)

\* a query of the security context or the analyzer and its answer
RoleQuery(op, roleName, permissionName, functionName, result) ==
    /\ polCall' = [op |-> op, role |-> roleName, permission |-> permissionName,
                   functionName |-> functionName, functionVersion |-> "",
                   decision |-> NoDecision, result |-> result]
    /\ UNCHANGED <<roles, policies, functions>>

\* The role graphs: three roles, each with one permission of its own, that inherit
\* from nothing, from each other (in a ring or back and forth), from themselves or
\* from a role that may not be registered.
GraphRoleNames == {"user", "admin", "ops"}
RoleGraphUniverse ==
    { [name |-> "user",  permissions |-> <<"data.access">>, inherits |-> parents] :
          parents \in {<<>>, <<"admin">>, <<"ops", "admin">>} }
    \cup { [name |-> "admin", permissions |-> <<"user.write">>, inherits |-> parents] :
          parents \in {<<>>, <<"user">>, <<"ops">>} }
    \cup { [name |-> "ops", permissions |-> <<"ops.run">>, inherits |-> parents] :
          parents \in {<<>>, <<"ops">>, <<"user">>} }
\* audit.read is listed by no role
PermissionNames == {"data.access", "user.write", "ops.run", "audit.read"}
GuardedFunctions ==
    FunctionUniverse
    \cup { [name |-> "access_data", requiredRoles |-> <<>>, requiredPermissions |-> <<"audit.read">>] }

NextRoles ==
    \/ \E role \in RoleGraphUniverse : registerRole(role) /\ UNCHANGED notSec
    \/ \E fn \in GuardedFunctions : registerFunction(fn) /\ UNCHANGED notSec
    \/ \E roleName \in GraphRoleNames, permissionName \in PermissionNames :
          /\ RoleQuery("roleHasPermission", roleName, permissionName, "",
                       roleHasPermission(roleName, permissionName))
          /\ UNCHANGED notSec
    \/ \E roleName \in GraphRoleNames :
          /\ RoleQuery("getRolePermissions", roleName, "", "", getRolePermissions(roleName))
          /\ UNCHANGED notSec
    \/ \E roleName \in GraphRoleNames, functionName \in FunctionNames :
          /\ RoleQuery("canRoleAccessFunction", roleName, "", functionName,
                       canRoleAccessFunction(roleName, functionName))
          /\ UNCHANGED notSec
    \/ \E role \in GraphRoleNames, fname \in FunctionNames :
          Evaluate(role, fname, "") /\ UNCHANGED notSec

-----------------------------------------------------------------------------
(* Runtime values (src/unnamed/part_000) and what the effect handlers      *)
(* make of them.  An absent classification (undefined) is "".  A record's   *)
(* fields, a Map, are a sequence of [k, v] in insertion order.  A JavaScript *)
(* string built by concatenation is the sequence of its pieces.  Timestamps *)
(* are left out of log and audit entries.                                   *)

string(value) == [type |-> "string", value |-> value]
unit == [type |-> "unit"]
record(typeName, fields, classification) ==
    [type |-> "record", typeName |-> typeName, fields |-> fields, classification |-> classification]
ok(value) == [type |-> "result", variant |-> "ok", value |-> value]
err(value) == [type |-> "result", variant |-> "err", value |-> value]

\* ValueOps.toString
RECURSIVE toString(_)
toString(value) ==
    CASE value.type = "unit" -> <<"unit">>
      [] value.type = "string" -> <<"\"", value.value, "\"">>
      [] value.type = "record" ->
            LET F[i \in 0..Len(value.fields)] ==
                    IF i = 0 THEN <<>>
                    ELSE F[i - 1] \o (IF i > 1 THEN <<", ">> ELSE <<>>)
                         \o <<value.fields[i].k, ": ">> \o toString(value.fields[i].v)
            IN  <<value.typeName, " {">> \o F[Len(value.fields)] \o <<"}">>
      [] value.type = "result" ->
            <<IF value.variant = "ok" THEN "Ok(" ELSE "Err(">> \o toString(value.value) \o <<")">>

\* The JavaScript values the handlers store: a string or null, or an object as its
\* properties in insertion order.
RECURSIVE valueToJS(_)
valueToJS(value) ==
    CASE value.type = "unit" -> [js |-> "null"]
      [] value.type = "string" -> [js |-> "string", value |-> value.value]
      [] value.type = "record" ->
            [js |-> "object",
             props |-> [i \in 1..Len(value.fields) |->
                          [k |-> value.fields[i].k, v |-> valueToJS(value.fields[i].v)]]]
      [] OTHER -> [js |-> "null"]

valueToRecord(value) ==
    IF value.type = "record" THEN valueToJS(value)
    ELSE [js |-> "object", props |-> <<[k |-> "value", v |-> valueToJS(value)]>>]

-----------------------------------------------------------------------------
(* Effect handlers (src/unnamed/part_002, src/unnamed/part_003,            *)
(* runtime/effects/logging.ts).  A handler's execute, given the handlers'   *)
(* state, yields whether it threw, its error or value, and the state after. *)

includes(rolesOfPrincipal, role) == role \in Range(rolesOfPrincipal)

dbCheckPermission(operation, principal) ==
    IF operation \in {"read", "query"}
    THEN includes(principal.roles, "admin") \/ includes(principal.roles, "viewer")
         \/ includes(principal.roles, "data.read")
    ELSE IF operation \in {"write", "execute", "transaction"}
    THEN includes(principal.roles, "admin") \/ includes(principal.roles, "data.write")
    ELSE FALSE

fsCheckPermission(operation, principal) ==
    IF operation \in {"read", "list", "exists"}
    THEN includes(principal.roles, "admin") \/ includes(principal.roles, "fs.read")
         \/ includes(principal.roles, "viewer")
    ELSE IF operation \in {"write", "delete"}
    THEN includes(principal.roles, "admin") \/ includes(principal.roles, "fs.write")
    ELSE FALSE

\* LoggingEffectHandler.checkPermission: everyone can log
logCheckPermission(operation, principal) == TRUE

\* effectHandler.checkPermission(operation, principal), by the handler registered
checkPermission(handler, operation, principal) ==
    CASE handler = "db" -> dbCheckPermission(operation, principal)
      [] handler = "fs" -> fsCheckPermission(operation, principal)
      [] handler = "log" -> logCheckPermission(operation, principal)

Returned(value) == [threw |-> FALSE, error |-> "", value |-> value,
                    tables |-> tables, files |-> files, logs |-> logs]
Threw(error) == [threw |-> TRUE, error |-> error, value |-> unit,
                 tables |-> tables, files |-> files, logs |-> logs]

\* DatabaseEffectHandler.recordToValue, for the stored records valueToRecord makes
recordToValue(stored) ==
    record("Record",
           [i \in 1..Len(stored.props) |->
               [k |-> stored.props[i].k,
                v |-> IF stored.props[i].v.js = "string" THEN string(stored.props[i].v.value)
                      ELSE [type |-> "json"]]],
           "")

\* DatabaseEffectHandler.execute: read, write, and the operations it does not know
\* (query, execute and transaction are not among the calls made here).
dbExecute(operation, params) ==
    CASE operation = "read" ->
            IF Len(params) < 2 THEN Returned(err(string("db.read requires table and id")))
            ELSE IF params[1].type # "string" THEN Returned(err(string("Table name must be a string")))
            ELSE IF params[2].type # "string" THEN Returned(err(string("ID must be a string")))
            ELSE IF params[1].value \notin DOMAIN tables THEN Returned(err(string("Table not found")))
            ELSE IF params[2].value \notin DOMAIN tables[params[1].value]
                 THEN Returned(err(string("Record not found")))
            ELSE Returned(ok(recordToValue(tables[params[1].value][params[2].value])))
      [] operation = "write" ->
            IF Len(params) < 3 THEN Returned(err(string("db.write requires table, id, and data")))
            ELSE IF params[1].type # "string" THEN Returned(err(string("Table name must be a string")))
            ELSE IF params[2].type # "string" THEN Returned(err(string("ID must be a string")))
            ELSE [Returned(ok(unit)) EXCEPT
                    !.tables = MapSet(tables, params[1].value,
                                      MapSet(IF params[1].value \in DOMAIN tables
                                             THEN tables[params[1].value] ELSE <<>>,
                                             params[2].value, valueToRecord(params[3])))]
      [] operation \notin {"read", "write", "query", "execute", "transaction"} ->
            Threw("Unknown database operation")

\* FilesystemEffectHandler.execute: read, write, delete, and the operations it does
\* not know (list and exists are not among the calls made here).
fsExecute(operation, params) ==
    CASE operation = "read" ->
            IF Len(params) < 1 THEN Returned(err(string("fs.read requires a path")))
            ELSE IF params[1].type # "string" THEN Returned(err(string("Path must be a string")))
            ELSE IF params[1].value \notin DOMAIN files THEN Returned(err(string("File not found")))
            ELSE Returned(ok(string(files[params[1].value])))
      [] operation = "write" ->
            IF Len(params) < 2 THEN Returned(err(string("fs.write requires path and content")))
            ELSE IF params[1].type # "string" THEN Returned(err(string("Path must be a string")))
            ELSE IF params[2].type # "string" THEN Returned(err(string("Content must be a string")))
            ELSE [Returned(ok(unit)) EXCEPT !.files = MapSet(files, params[1].value, params[2].value)]
      [] operation = "delete" ->
            IF Len(params) < 1 THEN Returned(err(string("fs.delete requires a path")))
            ELSE IF params[1].type # "string" THEN Returned(err(string("Path must be a string")))
            ELSE IF params[1].value \notin DOMAIN files THEN Returned(err(string("File not found")))
            ELSE [Returned(ok(unit)) EXCEPT
                    !.files = [x \in (DOMAIN files) \ {params[1].value} |-> files[x]]]
      [] operation \notin {"read", "write", "delete", "list", "exists"} ->
            Threw("Unknown filesystem operation")

\* LoggingEffectHandler.redactValue
redactValue(value, classification) ==
    IF classification = "" THEN value
    ELSE IF classification \in {"restricted", "confidential"} THEN string("[REDACTED]")
    ELSE IF classification = "internal"
         THEN string(CASE value.type = "record" -> "[RECORD]"
                       [] value.type = "string" -> "[STRING]"
                       [] value.type = "unit" -> "[UNIT]"
                       [] value.type = "result" -> "[RESULT]")
    ELSE value

\* LoggingEffectHandler.execute and log.  The calls made here pass no metadata map
\* as a second parameter, so the entry's metadata is undefined and left out.
logExecute(operation, params, principal, metadata) ==
    IF operation \notin {"debug", "info", "warn", "error"} THEN Threw("Unknown log level")
    ELSE IF Len(params) < 1 THEN Returned(err(string("log requires a message")))
    ELSE [Returned(ok(unit)) EXCEPT
            !.logs = Append(logs, [level |-> operation,
                                   message |-> toString(redactValue(params[1], metadata.classification)),
                                   principal |-> principal.id,
                                   classification |-> metadata.classification])]

\* effectHandler.execute(operation, params, principal, metadata), by the handler registered
handlerExecute(handler, operation, params, principal, metadata) ==
    CASE handler = "db" -> dbExecute(operation, params)
      [] handler = "fs" -> fsExecute(operation, params)
      [] handler = "log" -> logExecute(operation, params, principal, metadata)

-----------------------------------------------------------------------------
(* Effect handler registry and audit logger (runtime/effects/registry.ts)  *)

HandlerNames == {"db", "fs", "log"}

\* The mutant: a record's fields are serialized under the call's classification, not
\* under the record's own.
RECURSIVE serializeByCallOnly(_, _)
serializeByCallOnly(value, classification) ==
    IF classification \in {"confidential", "restricted"} THEN [js |-> "string", value |-> "[REDACTED]"]
    ELSE IF classification = "internal" THEN [js |-> "object", type |-> value.type]
    ELSE CASE value.type = "unit" -> [js |-> "null"]
           [] value.type = "string" -> [js |-> "string", value |-> value.value]
           [] value.type = "record" ->
                 [js |-> "object", type |-> value.typeName,
                  fields |-> [i \in 1..Len(value.fields) |->
                                [k |-> value.fields[i].k,
                                 v |-> serializeByCallOnly(value.fields[i].v, classification)]]]
           [] OTHER -> [js |-> "object", type |-> value.type]

\* serializeForAudit: what JSON would show, as [js |-> kind, ...]
RECURSIVE serializeForAudit(_, _)
serializeForAudit(value, classification) ==
    IF classification \in {"confidential", "restricted"} THEN [js |-> "string", value |-> "[REDACTED]"]
    ELSE IF classification = "internal" THEN [js |-> "object", type |-> value.type]
    ELSE CASE value.type = "unit" -> [js |-> "null"]
           [] value.type = "string" -> [js |-> "string", value |-> value.value]
           [] value.type = "record" ->
                 [js |-> "object", type |-> value.typeName,
                  fields |-> [i \in 1..Len(value.fields) |->
                                [k |-> value.fields[i].k,
                                 v |-> serializeForAudit(value.fields[i].v, value.classification)]]]
           [] OTHER -> [js |-> "object", type |-> value.type]

\* the params of an audit entry: params.map(p => serializeForAudit(p, metadata.classification))
auditParams(params, metadata) ==
    [i \in 1..Len(params) |-> serializeForAudit(params[i], metadata.classification)]

Undefined == [js |-> "undefined"]

EffInit ==
    /\ handlers = {}
    /\ tables = <<>>
    /\ files = <<>>
    /\ logs = <<>>
    /\ heap = <<>>
    /\ auditLogs = <<>>
    /\ returned = <<>>
    /\ dispatched = 0
    /\ effCall = [op |-> "init"]

\* AuditLogger.log: a new entry object, pushed
auditLoggerLog(entry) ==
    /\ heap' = Append(heap, entry)
    /\ auditLogs' = Append(auditLogs, Len(heap) + 1)

\* What a call of execute leaves in effCall: its arguments, whether checkPermission
\* was called and what it answered, the steps taken in order, and the outcome.
Dispatch(handler, operation, params, principal, metadata, events, outcome) ==
    [op |-> "execute", handler |-> handler, operation |-> operation, params |-> params,
     principal |-> principal, metadata |-> metadata, events |-> events,
     threw |-> outcome.threw, error |-> outcome.error, value |-> outcome.value]

\* execute, lines 134-137: no handler of that name
unknownHandler(handler, operation, params, principal, metadata) ==
    /\ effCall' = Dispatch(handler, operation, params, principal, metadata,
                           <<"throw">>, Threw("Unknown effect handler"))
    /\ UNCHANGED <<tables, files, logs, heap, auditLogs>>

\* The mutant: a failed permission check is thrown without an audit entry.
permissionDeniedUnaudited(handler, operation, params, principal, metadata) ==
    /\ effCall' = Dispatch(handler, operation, params, principal, metadata,
                           <<"checkPermission:false", "throw">>, Threw("Permission denied"))
    /\ UNCHANGED <<tables, files, logs, heap, auditLogs>>

\* execute, lines 140-157: checkPermission answered false
permissionDenied(handler, operation, params, principal, metadata) ==
    /\ IF metadata.auditRequired
       THEN auditLoggerLog([principal |-> principal.id, effect |-> handler, operation |-> operation,
                            params |-> auditParams(params, metadata), result |-> Undefined,
                            error |-> "Permission denied", success |-> FALSE])
       ELSE UNCHANGED <<heap, auditLogs>>
    /\ effCall' = Dispatch(handler, operation, params, principal, metadata,
                           <<"checkPermission:false">>
                             \o (IF metadata.auditRequired THEN <<"audit">> ELSE <<>>) \o <<"throw">>,
                           Threw("Permission denied"))
    /\ UNCHANGED <<tables, files, logs>>

\* execute, lines 160-199: the handler runs; its throw or its value is audited
invokeHandler(handler, operation, params, principal, metadata) ==
    LET r == handlerExecute(handler, operation, params, principal, metadata)
    IN  /\ tables' = r.tables
        /\ files' = r.files
        /\ logs' = r.logs
        /\ IF metadata.auditRequired
           THEN auditLoggerLog([principal |-> principal.id, effect |-> handler, operation |-> operation,
                                params |-> auditParams(params, metadata),
                                result |-> IF r.threw THEN Undefined
                                           ELSE serializeForAudit(r.value, metadata.classification),
                                error |-> r.error, success |-> ~r.threw])
           ELSE UNCHANGED <<heap, auditLogs>>
        /\ effCall' = Dispatch(handler, operation, params, principal, metadata,
                               <<"checkPermission:true", "handler.execute">>
                                 \o (IF metadata.auditRequired THEN <<"audit">> ELSE <<>>)
                                 \o <<IF r.threw THEN "throw" ELSE "return">>,
                               r)

\* The mutant: execute without the permission gate.
executeUnchecked(handler, operation, params, principal, metadata) ==
    /\ dispatched' = dispatched + 1
    /\ UNCHANGED <<handlers, returned>>
    /\ IF handler \notin handlers
       THEN unknownHandler(handler, operation, params, principal, metadata)
       ELSE invokeHandler(handler, operation, params, principal, metadata)

\* EffectHandlerRegistry.execute, awaited by its caller before the next call is made
execute(handler, operation, params, principal, metadata) ==
    /\ dispatched' = dispatched + 1
    /\ UNCHANGED <<handlers, returned>>
    /\ IF handler \notin handlers
       THEN unknownHandler(handler, operation, params, principal, metadata)
       ELSE IF ~checkPermission(handler, operation, principal)
       THEN permissionDenied(handler, operation, params, principal, metadata)
       ELSE invokeHandler(handler, operation, params, principal, metadata)

\* EffectHandlerRegistry.register, with the one handler object of that name
register(name) ==
    /\ handlers' = handlers \cup {name}
    /\ UNCHANGED <<tables, files, logs, heap, auditLogs, returned, effCall, dispatched>>

unregister(name) ==
    /\ handlers' = handlers \ {name}
    /\ UNCHANGED <<tables, files, logs, heap, auditLogs, returned, effCall, dispatched>>

\* getAuditLogs -> AuditLogger.getLogs: [...this.logs], a new array of the same entry objects
getAuditLogs ==
    /\ returned' = auditLogs
    /\ UNCHANGED <<handlers, tables, files, logs, heap, auditLogs, effCall, dispatched>>

\* clearAuditLogs -> AuditLogger.clear: this.logs = []
clearAuditLogs ==
    /\ auditLogs' = <<>>
    /\ UNCHANGED <<handlers, tables, files, logs, heap, returned, effCall, dispatched>>

\* The caller of getAuditLogs removes the last element of the array it was handed.
callerPop ==
    /\ returned # <<>>
    /\ returned' = SubSeq(returned, 1, Len(returned) - 1)
    /\ UNCHANGED <<handlers, tables, files, logs, heap, auditLogs, effCall, dispatched>>

\* The caller of getAuditLogs assigns to a property of an element: list[i].success = true
callerAssign(i) ==
    /\ i \in 1..Len(returned)
    /\ heap' = [heap EXCEPT ![returned[i]].success = TRUE]
    /\ UNCHANGED <<handlers, tables, files, logs, auditLogs, returned, effCall, dispatched>>

\* The calls made on the registry
Secret == "078-05-1120"
Principals == { [id |-> "alice", roles |-> <<"admin">>], [id |-> "bob", roles |-> <<>>] }
Requests ==
    { [handler |-> "db", operation |-> "write",
       params |-> <<string("users"), string("u1"),
                    record("User", <<[k |-> "ssn", v |-> string(Secret)]>>, "confidential")>>],
      [handler |-> "fs", operation |-> "write", params |-> <<string("/a"), string("x")>>],
      [handler |-> "log", operation |-> "info",
       params |-> <<record("User", <<[k |-> "ssn", v |-> string(Secret)]>>, "restricted")>>],
      [handler |-> "log", operation |-> "trace", params |-> <<string("x")>>] }
Metadatas ==
    { [auditRequired |-> FALSE, classification |-> ""],
      [auditRequired |-> TRUE, classification |-> ""],
      [auditRequired |-> TRUE, classification |-> "internal"],
      [auditRequired |-> TRUE, classification |-> "confidential"] }

\* At most this many calls of execute in a run.
MaxDispatch == 2

NextEffects ==
    \/ \E name \in HandlerNames : register(name) /\ UNCHANGED notEff
    \/ \E name \in HandlerNames : unregister(name) /\ UNCHANGED notEff
    \/ \E req \in Requests, principal \in Principals, metadata \in Metadatas :
          /\ dispatched < MaxDispatch
          /\ execute(req.handler, req.operation, req.params, principal, metadata)
          /\ UNCHANGED notEff

\* The audit log and its readers: audited and unaudited calls of db.write and log.trace
AuditRequests == {req \in Requests : req.operation \in {"write", "trace"} /\ req.handler # "fs"}
AuditMetadatas == {metadata \in Metadatas : metadata.classification = ""}

NextAudit ==
    \/ \E name \in HandlerNames \ {"fs"} : register(name) /\ UNCHANGED notEff
    \/ \E req \in AuditRequests, principal \in Principals, metadata \in AuditMetadatas :
          /\ dispatched < MaxDispatch
          /\ execute(req.handler, req.operation, req.params, principal, metadata)
          /\ UNCHANGED notEff
    \/ getAuditLogs /\ UNCHANGED notEff
    \/ clearAuditLogs /\ UNCHANGED notEff
    \/ callerPop /\ UNCHANGED notEff
    \/ \E i \in 1..MaxDispatch : callerAssign(i) /\ UNCHANGED notEff

-----------------------------------------------------------------------------
(* Version registry (compiler/versioning/registry.ts).  chain.versions, a Map   *)
(* keyed by versionKey, is a function; an absent version (undefined) is         *)
(* NullVersion and an absent entity is NoEntity.                                *)

NoEntity == [undefined |-> TRUE]
NoChain == [versions |-> <<>>, latestVersion |-> NullVersion, latestStableVersion |-> NullVersion]

\* versionKey: `${major}.${minor}.${patch}` and, if there is one, `-${prerelease}`;
\* the build is not part of it
versionKey(version) == <<version.major, version.minor, version.patch, version.prerelease>>

\* The mutant: the new entry points forward at the version it replaces.
versionedLinkedBack(entity, version) ==
    [name |-> entity.name, version |-> version,
     stability |-> IF entity.stability = "" THEN "alpha" ELSE entity.stability,
     node |-> entity,
     replaces |-> IF Len(entity.replaces) > 0 THEN parseVersion(entity.replaces[1]) ELSE NullVersion,
     replacedBy |-> IF Len(entity.replaces) > 0 THEN parseVersion(entity.replaces[1])
                    ELSE NullVersion]

\* register, lines 78-105: the entity's record, with its replaces link
versioned(entity, version) ==
    [name |-> entity.name, version |-> version,
     stability |-> IF entity.stability = "" THEN "alpha" ELSE entity.stability,
     node |-> entity,
     replaces |-> IF Len(entity.replaces) > 0 THEN parseVersion(entity.replaces[1]) ELSE NullVersion,
     replacedBy |-> NullVersion]

\* register, lines 87-100: the entry of the replaced version, if there is one, points forward
backLinked(versions, entity, version) ==
    IF /\ Len(entity.replaces) > 0
       /\ parseVersion(entity.replaces[1]) # NullVersion
       /\ versionKey(parseVersion(entity.replaces[1])) \in DOMAIN versions
    THEN [versions EXCEPT ![versionKey(parseVersion(entity.replaces[1]))].replacedBy = version]
    ELSE versions

\* The mutant: the version registered last is the latest.
laterLast(latest, version) == version

\* register, lines 111-113 and 117-120: the running maximum
later(latest, version) ==
    IF latest = NullVersion \/ compareVersions(version, latest) = 1 THEN version ELSE latest

\* register, lines 66-121, on the chain of the entity's name
registered(chain, entity, version) ==
    [versions |-> MapSet(backLinked(chain.versions, entity, version), versionKey(version),
                         versioned(entity, version)),
     latestVersion |-> later(chain.latestVersion, version),
     latestStableVersion |->
         IF versioned(entity, version).stability = "stable"
         THEN later(chain.latestStableVersion, version)
         ELSE chain.latestStableVersion]

chainOf(name) == IF name \in DOMAIN chains THEN chains[name] ELSE NoChain

\* VersionRegistry.register
registerEntity(entity) ==
    /\ registers' = registers + 1
    /\ IF entity.version = ""
       THEN /\ verCall' = [op |-> "register", threw |-> TRUE, error |-> "must have a version"]
            /\ UNCHANGED chains
       ELSE IF parseVersion(entity.version) = NullVersion
       THEN /\ verCall' = [op |-> "register", threw |-> TRUE, error |-> "Invalid version string"]
            /\ UNCHANGED chains
       ELSE /\ chains' = MapSet(chains, entity.name,
                                registered(chainOf(entity.name), entity, parseVersion(entity.version)))
            /\ verCall' = [op |-> "register", threw |-> FALSE, error |-> ""]

\* VersionRegistry.get
get(name, version) ==
    IF name \notin DOMAIN chains THEN NoEntity
    ELSE IF versionKey(version) \in DOMAIN chains[name].versions
    THEN chains[name].versions[versionKey(version)]
    ELSE NoEntity

getLatest(name) ==
    IF name \notin DOMAIN chains \/ chainOf(name).latestVersion = NullVersion THEN NoEntity
    ELSE get(name, chains[name].latestVersion)

getLatestStable(name) ==
    IF name \notin DOMAIN chains \/ chainOf(name).latestStableVersion = NullVersion THEN NoEntity
    ELSE get(name, chains[name].latestStableVersion)

\* VersionRegistry.resolve.  matching.sort(descending)[0]: the entries of a chain have
\* distinct version keys, so no two compare Equal and the first after the sort is the
\* one no other exceeds.
resolve(name, constraint) ==
    IF name \notin DOMAIN chains THEN NoEntity
    ELSE IF constraint.type = "latest" THEN getLatest(name)
    ELSE IF constraint.type = "stable" THEN getLatestStable(name)
    ELSE LET matching == {chains[name].versions[k] : k \in DOMAIN chains[name].versions}
             satisfying == {entity \in matching : satisfiesConstraint(entity.version, constraint)}
         IN  IF satisfying = {} THEN NoEntity
             ELSE CHOOSE a \in satisfying :
                      \A b \in satisfying : a = b \/ compareVersions(a.version, b.version) = 1

\* a call of resolve and its answer
Resolve(name, constraint) ==
    /\ verCall' = [op |-> "resolve", name |-> name, constraint |-> constraint,
                   result |-> resolve(name, constraint)]
    /\ UNCHANGED <<chains, registers>>

\* a query and its answer
Query(op, name, result) ==
    /\ verCall' = [op |-> op, name |-> name, result |-> result]
    /\ UNCHANGED <<chains, registers>>

VerInit ==
    /\ chains = <<>>
    /\ registers = 0
    /\ verCall = [op |-> "init"]

\* The entities registered: versions of one function, one of them without a version,
\* one malformed, two with the same version key; stable or beta, and replacing
\* nothing or 1.0.0.
EntityNames == {"greet"}
VersionStrings == {"", "1.0.0", "2.0.0", "1.0.0-beta", "1.0.0+b7", "1.x"}
Entities ==
    { [name |-> name, version |-> version, stability |-> stability, replaces |-> replaces] :
      name \in EntityNames, version \in VersionStrings, stability \in {"stable", "beta"},
      replaces \in {<<>>, <<"1.0.0">>} }

\* The constraints resolved: one of each kind
Constraints ==
    { [type |-> "exact", version |-> parseVersion("1.0.0")],
      [type |-> "caret", base |-> parseVersion("1.0.0")],
      [type |-> "tilde", base |-> parseVersion("1.0.0")],
      [type |-> "range", min |-> parseVersion("1.0.0"), max |-> parseVersion("2.0.0"),
       minInclusive |-> TRUE, maxInclusive |-> FALSE],
      [type |-> "any"], [type |-> "latest"], [type |-> "stable"] }

\* At most this many calls of register in a run.
MaxRegister == 3

NextRegistry ==
    \/ \E entity \in Entities :
          registers < MaxRegister /\ registerEntity(entity) /\ UNCHANGED notVer
    \/ \E name \in EntityNames \cup {"other"} :
          Query("getLatest", name, getLatest(name)) /\ UNCHANGED notVer
    \/ \E name \in EntityNames \cup {"other"} :
          Query("getLatestStable", name, getLatestStable(name)) /\ UNCHANGED notVer
    \/ \E name \in EntityNames \cup {"other"}, constraint \in Constraints :
          Resolve(name, constraint) /\ UNCHANGED notVer

-----------------------------------------------------------------------------
(* Chain walks of the version registry (compiler/versioning/registry.ts     *)
(* lines 204-237).  getReplacementChain and getPredecessorChain loop while  *)
(* the current entry has a link.  The entries of a chain are finitely many  *)
(* and the loop reads nothing else: a loop that has gone through more       *)
(* entries than the chain holds has come back to one it left, and goes      *)
(* round for ever.  Such a call does not return.                            *)

\* the loop of getReplacementChain at entry current, with as many iterations left as
\* there are entries it has not been through
RECURSIVE replacementLoop(_, _, _, _)
replacementLoop(name, current, chain, left) ==
    IF current = NoEntity \/ current.replacedBy = NullVersion
    THEN [returns |-> TRUE, chain |-> chain]
    ELSE IF left = 0 THEN [returns |-> FALSE, chain |-> chain]
    ELSE replacementLoop(name, get(name, current.replacedBy),
                         Append(chain, current.replacedBy), left - 1)

\* VersionRegistry.getReplacementChain, and whether it returns
replacementWalk(name, version) ==
    replacementLoop(name, get(name, version), <<version>>,
                    Cardinality(DOMAIN chainOf(name).versions))

\* the loop of getPredecessorChain, which puts each link in front
RECURSIVE predecessorLoop(_, _, _, _)
predecessorLoop(name, current, chain, left) ==
    IF current = NoEntity \/ current.replaces = NullVersion
    THEN [returns |-> TRUE, chain |-> chain]
    ELSE IF left = 0 THEN [returns |-> FALSE, chain |-> chain]
    ELSE predecessorLoop(name, get(name, current.replaces),
                         <<current.replaces>> \o chain, left - 1)

\* VersionRegistry.getPredecessorChain, and whether it returns
getPredecessorChain(name, version) ==
    predecessorLoop(name, get(name, version), <<version>>,
                    Cardinality(DOMAIN chainOf(name).versions))

\* VersionRegistry.hasMigrationPath: some version of the replacement chain is Equal to `to`
hasMigrationPath(name, from, to) ==
    [returns |-> replacementWalk(name, from).returns,
     has |-> /\ replacementWalk(name, from).returns
             /\ \E i \in DOMAIN replacementWalk(name, from).chain :
                   compareVersions(replacementWalk(name, from).chain[i], to) = 0]

\* a walk from a version and its answer
Walked(op, name, version, answer) ==
    /\ verCall' = [op |-> op, name |-> name, version |-> version, answer |-> answer]
    /\ UNCHANGED <<chains, registers>>

Released == { parseVersion("1.0.0"), parseVersion("2.0.0"), parseVersion("3.0.0") }

\* The versions of greet registered for the walks: each replaces nothing, 1.0.0 or
\* 2.0.0, itself included
Replacing ==
    { [name |-> "greet", version |-> version, stability |-> "stable", replaces |-> replaces] :
      version \in {"1.0.0", "2.0.0", "3.0.0"},
      replaces \in {<<>>, <<"1.0.0">>, <<"2.0.0">>} }

NextChains ==
    \/ \E entity \in Replacing :
          registers < MaxRegister /\ registerEntity(entity) /\ UNCHANGED notVer
    \/ \E version \in Released :
          Walked("getReplacementChain", "greet", version, replacementWalk("greet", version))
          /\ UNCHANGED notVer
    \/ \E version \in Released :
          Walked("getPredecessorChain", "greet", version, getPredecessorChain("greet", version))
          /\ UNCHANGED notVer
    \/ \E from \in Released :
          Walked("hasMigrationPath", "greet", from,
                 hasMigrationPath("greet", from, parseVersion("3.0.0")))
          /\ UNCHANGED notVer

-----------------------------------------------------------------------------
(* Migration registry (MigrationRegistry, compiler/versioning/semver.test.ts *)
(* lines 319-500) over the version registry's replacement links.  A         *)
(* MigrationFunction is held by the versions it goes between.               *)

NoMigration == [undefined |-> TRUE]

MigInit ==
    /\ migrations = <<>>
    /\ migCall = [op |-> "init"]

migrationsOf(functionName) ==
    IF functionName \in DOMAIN migrations THEN migrations[functionName] ELSE <<>>

\* MigrationRegistry.register: pushed onto the function's list
registerMigration(targetFunction, fromVersion, toVersion) ==
    /\ migrations' = MapSet(migrations, targetFunction,
                            Append(migrationsOf(targetFunction),
                                   [fromVersion |-> fromVersion, toVersion |-> toVersion,
                                    validated |-> FALSE]))
    /\ migCall' = [op |-> "register"]

\* The mutant: a migration is found by the version it starts from alone.
findFrom(functionName, fromVersion, toVersion) ==
    LET found == SelectSeq(migrationsOf(functionName),
                           LAMBDA m : compareVersions(m.fromVersion, fromVersion) = 0)
    IN  IF found = <<>> THEN NoMigration ELSE found[1]

\* MigrationRegistry.find: the first migration between versions that compare Equal to these
find(functionName, fromVersion, toVersion) ==
    LET found == SelectSeq(migrationsOf(functionName),
                           LAMBDA m : /\ compareVersions(m.fromVersion, fromVersion) = 0
                                      /\ compareVersions(m.toVersion, toVersion) = 0)
    IN  IF found = <<>> THEN NoMigration ELSE found[1]

\* VersionRegistry.getReplacementChain: the version, then replacedBy after replacedBy
RECURSIVE getReplacementChain(_, _)
getReplacementChain(name, version) ==
    IF get(name, version) = NoEntity \/ get(name, version).replacedBy = NullVersion
    THEN <<version>>
    ELSE <<version>> \o getReplacementChain(name, get(name, version).replacedBy)

\* buildPath's loop from index i of the chain on (i counted from 1): the steps, and
\* whether it returned from inside the loop for a missing migration
RECURSIVE pathSteps(_, _, _, _, _)
pathSteps(functionName, replacementChain, i, toVersion, steps) ==
    IF i > Len(replacementChain) - 1 THEN [steps |-> steps, missing |-> FALSE]
    ELSE IF find(functionName, replacementChain[i], replacementChain[i + 1]) = NoMigration
    THEN [steps |-> steps, missing |-> TRUE]
    ELSE IF compareVersions(replacementChain[i + 1], toVersion) = 0
    THEN [steps |-> Append(steps, [fromVersion |-> replacementChain[i],
                                   toVersion |-> replacementChain[i + 1],
                                   migration |-> find(functionName, replacementChain[i],
                                                      replacementChain[i + 1])]),
          missing |-> FALSE]
    ELSE pathSteps(functionName, replacementChain, i + 1, toVersion,
                   Append(steps, [fromVersion |-> replacementChain[i],
                                  toVersion |-> replacementChain[i + 1],
                                  migration |-> find(functionName, replacementChain[i],
                                                     replacementChain[i + 1])]))

\* MigrationRegistry.buildPath
buildPath(functionName, fromVersion, toVersion) ==
    LET replacementChain == getReplacementChain(functionName, fromVersion)
        r == pathSteps(functionName, replacementChain, 1, toVersion, <<>>)
    IN  [fromVersion |-> fromVersion, toVersion |-> toVersion, steps |-> r.steps,
         isComplete |-> /\ ~r.missing
                        /\ Len(r.steps) > 0
                        /\ compareVersions(r.steps[Len(r.steps)].toVersion, toVersion) = 0,
         totalSteps |-> IF r.missing THEN Len(replacementChain) - 1 ELSE Len(r.steps)]

\* a call of buildPath and its answer
BuildPath(functionName, fromVersion, toVersion) ==
    /\ migCall' = [op |-> "buildPath", functionName |-> functionName,
                   fromVersion |-> fromVersion, toVersion |-> toVersion,
                   path |-> buildPath(functionName, fromVersion, toVersion)]
    /\ UNCHANGED migrations

\* The versions of greet that replace one another, 3.0.0 after 2.0.0 or straight
\* after 1.0.0, and the migrations written between them
Successions ==
    { [name |-> "greet", version |-> "1.0.0", stability |-> "stable", replaces |-> <<>>],
      [name |-> "greet", version |-> "2.0.0", stability |-> "stable", replaces |-> <<"1.0.0">>],
      [name |-> "greet", version |-> "3.0.0", stability |-> "stable", replaces |-> <<"2.0.0">>],
      [name |-> "greet", version |-> "3.0.0", stability |-> "stable", replaces |-> <<"1.0.0">>] }

\* At most this many migrations registered in a run.
MaxMigrations == 2

NextMigration ==
    \/ \E entity \in Successions :
          registers < MaxRegister /\ registerEntity(entity) /\ UNCHANGED notVer
    \/ \E fromVersion \in Released, toVersion \in Released :
          /\ Len(migrationsOf("greet")) < MaxMigrations
          /\ compareVersions(fromVersion, toVersion) = -1
          /\ registerMigration("greet", fromVersion, toVersion)
          /\ UNCHANGED notMig /\ UNCHANGED verVars
    \/ \E fromVersion \in Released, toVersion \in Released :
          BuildPath("greet", fromVersion, toVersion) /\ UNCHANGED notMig /\ UNCHANGED verVars

-----------------------------------------------------------------------------
(* Compatibility analyzer (src/unnamed/part_008) and compiler context        *)
(* (compiler/context.ts) over the version registry of functions.  A          *)
(* FunctionNode is held flat: its version fields, signature.inputs and       *)
(* outputs (each parameter's type by its typeToString), effects, security    *)
(* fields and metadata.pure.  The modules registered hold functions only.    *)

Change(type, severity) == [type |-> type, severity |-> severity]
NoChange == Change("none", "none")
Changes(marks) == SelectSeq(marks, LAMBDA c : c # NoChange)

checkParameterCompatibility(oldParams, newParams) ==
    Changes([i \in 1..Len(oldParams) |->
                IF i > Len(newParams) THEN Change("parameter-removed", "error")
                ELSE IF oldParams[i].paramType # newParams[i].paramType
                THEN Change("input-type-changed", "error")
                ELSE NoChange]
            \o [i \in 1..(IF Len(newParams) > Len(oldParams)
                          THEN Len(newParams) - Len(oldParams) ELSE 0) |->
                IF ~newParams[Len(oldParams) + i].optional
                THEN Change("parameter-added", "error") ELSE NoChange])

\* new Set(effects.map(e => `${e.effectType}:${e.target}`))
effectSet(effects) ==
    Dedup([i \in 1..Len(effects) |->
              Chars(effects[i].effectType) \o <<":">> \o Chars(effects[i].target)])

checkEffectCompatibility(oldEffects, newEffects) ==
    Changes([i \in 1..Len(effectSet(oldEffects)) |->
                IF effectSet(oldEffects)[i] \notin Range(effectSet(newEffects))
                THEN Change("effect-removed", "warning") ELSE NoChange]
            \o [i \in 1..Len(effectSet(newEffects)) |->
                IF effectSet(newEffects)[i] \notin Range(effectSet(oldEffects))
                THEN Change("effect-added", "error") ELSE NoChange])

checkSecurityCompatibility(oldFn, newFn) ==
    Changes([i \in 1..Len(Dedup(newFn.requiredRoles)) |->
                IF Dedup(newFn.requiredRoles)[i] \notin Range(oldFn.requiredRoles)
                THEN Change("security-stricter", "error") ELSE NoChange]
            \o [i \in 1..Len(Dedup(oldFn.requiredRoles)) |->
                IF Dedup(oldFn.requiredRoles)[i] \notin Range(newFn.requiredRoles)
                THEN Change("security-loosened", "warning") ELSE NoChange]
            \o [i \in 1..Len(newFn.requiredCapabilities) |->
                IF newFn.requiredCapabilities[i] \notin Range(oldFn.requiredCapabilities)
                THEN Change("security-stricter", "error") ELSE NoChange]
            \o <<IF newFn.auditRequired /\ ~oldFn.auditRequired
                 THEN Change("security-stricter", "warning") ELSE NoChange>>)

determineCompatibilityLevel(breakingChanges) ==
    IF \E i \in 1..Len(breakingChanges) : breakingChanges[i].severity = "error" THEN "breaking"
    ELSE IF Len(breakingChanges) > 0 THEN "backward-compatible"
    ELSE "fully-compatible"

\* checkFunctionCompatibility: its breakingChanges, in the order they are pushed
breakingChanges(oldFn, newFn) ==
    checkParameterCompatibility(oldFn.inputs, newFn.inputs)
    \o checkParameterCompatibility(oldFn.outputs, newFn.outputs)
    \o checkEffectCompatibility(oldFn.effects, newFn.effects)
    \o checkSecurityCompatibility(oldFn, newFn)
    \o (IF oldFn.pure /\ ~newFn.pure THEN <<Change("purity-changed", "error")>> ELSE <<>>)

Diagnostic(severity, code) == [severity |-> severity, code |-> code]

\* validateFunctionVersion, lines 113-153: the replaced version is in the registry
replacementDiagnostics(fn, oldVersion) ==
    (IF /\ determineCompatibilityLevel(breakingChanges(oldVersion.node, fn)) = "breaking"
        /\ parseVersion(fn.version).major = oldVersion.version.major
     THEN <<Diagnostic("error", "VER003")>> ELSE <<>>)
    \o [i \in 1..Len(SelectSeq(breakingChanges(oldVersion.node, fn),
                               LAMBDA c : c.severity = "error")) |->
            Diagnostic("warning", "VER004")]

\* validateFunctionVersion with the default options: what it returns and the
\* diagnostics it builds, in order
validateFunctionVersion(fn) ==
    IF fn.version = "" THEN [valid |-> TRUE, emitted |-> <<>>]
    ELSE IF parseVersion(fn.version) = NullVersion
    THEN [valid |-> FALSE, emitted |-> <<Diagnostic("error", "VER001")>>]
    ELSE IF Len(fn.replaces) > 0 /\ parseVersion(fn.replaces[1]) = NullVersion
    THEN [valid |-> FALSE, emitted |-> <<Diagnostic("error", "VER002")>>]
    ELSE [valid |-> TRUE,
          emitted |->
              (IF Len(fn.replaces) > 0 /\ get(fn.name, parseVersion(fn.replaces[1])) # NoEntity
               THEN replacementDiagnostics(fn, get(fn.name, parseVersion(fn.replaces[1])))
               ELSE <<>>)
              \o (IF fn.stability = "deprecated"
                  THEN <<Diagnostic("warning", "VER005")>> ELSE <<>>)
              \o (IF fn.stability \in {"alpha", "beta"}
                  THEN <<Diagnostic("warning", "VER006")>> ELSE <<>>)]

\* ModuleVersionRegistry.registerModule: functions.register on each function that has
\* a version, one after the other, from the chains cs
RECURSIVE registerAll(_, _)
registerAll(cs, fns) ==
    IF fns = <<>> THEN cs
    ELSE IF Head(fns).version = "" THEN registerAll(cs, Tail(fns))
    ELSE registerAll(MapSet(cs, Head(fns).name,
                            registered(IF Head(fns).name \in DOMAIN cs
                                       THEN cs[Head(fns).name] ELSE NoChain,
                                       Head(fns), parseVersion(Head(fns).version))),
                     Tail(fns))

RECURSIVE Concat(_)
Concat(seqs) == IF seqs = <<>> THEN <<>> ELSE Head(seqs) \o Concat(Tail(seqs))

CtxInit ==
    /\ modules = <<>>
    /\ diagnostics = <<>>
    /\ ctxCall = [op |-> "init"]

\* CompilerContext.registerModule: every element is validated against the registry as
\* it is before the call, then the valid ones are registered
registerModule(module) ==
    LET results == [i \in 1..Len(module.elements) |-> validateFunctionVersion(module.elements[i])]
        validFunctions ==
            Concat([i \in 1..Len(module.elements) |->
                       IF results[i].valid THEN <<module.elements[i]>> ELSE <<>>])
    IN  /\ modules' = MapSet(modules, module.name, module)
        /\ diagnostics' = diagnostics \o Concat([i \in 1..Len(results) |-> results[i].emitted])
        /\ chains' = registerAll(chains, validFunctions)
        /\ registers' = registers + Len(SelectSeq(validFunctions, LAMBDA fn : fn.version # ""))
        /\ verCall' = IF \E i \in 1..Len(validFunctions) : validFunctions[i].version # ""
                      THEN [op |-> "register", threw |-> FALSE, error |-> ""] ELSE verCall
        /\ ctxCall' = [op |-> "registerModule", module |-> module, results |-> results]

\* The mutant: a failed resolution starts the diagnostics over with its error.
resolveStartingOver(name, constraintStr) ==
    LET constraint == parseConstraint(constraintStr)
        resolved == IF constraint = NullConstraint THEN NoEntity ELSE resolve(name, constraint)
    IN  /\ diagnostics' = IF constraint = NullConstraint
                          THEN <<Diagnostic("error", "VER008")>>
                          ELSE IF resolved = NoEntity
                          THEN <<Diagnostic("error", "VER009")>>
                          ELSE diagnostics
        /\ ctxCall' = [op |-> "resolveFunctionVersion", name |-> name,
                       constraint |-> constraintStr, result |-> resolved]
        /\ UNCHANGED modules

\* CompilerContext.resolveFunctionVersion: VER008 for a constraint that does not parse,
\* VER009 when the registry resolves nothing, else the version resolved
resolveFunctionVersion(name, constraintStr) ==
    LET constraint == parseConstraint(constraintStr)
        resolved == IF constraint = NullConstraint THEN NoEntity ELSE resolve(name, constraint)
    IN  /\ diagnostics' = IF constraint = NullConstraint
                          THEN Append(diagnostics, Diagnostic("error", "VER008"))
                          ELSE IF resolved = NoEntity
                          THEN Append(diagnostics, Diagnostic("error", "VER009"))
                          ELSE diagnostics
        /\ ctxCall' = [op |-> "resolveFunctionVersion", name |-> name,
                       constraint |-> constraintStr, result |-> resolved]
        /\ UNCHANGED modules

\* The functions compiled: versions of greet.  1.0.0 takes one input and reads
\* db:users; the others take none.
Greet(version, stability, replaces, inputs, effects) ==
    [name |-> "greet", version |-> version, stability |-> stability, replaces |-> replaces,
     inputs |-> inputs, outputs |-> <<>>, effects |-> effects, requiredRoles |-> <<>>,
     requiredCapabilities |-> <<>>, auditRequired |-> FALSE, pure |-> FALSE]
Who == <<[name |-> "who", paramType |-> "string", optional |-> FALSE]>>
Reads == <<[effectType |-> "db", target |-> "users"]>>
First == Greet("1.0.0", "stable", <<>>, Who, Reads)
Successors ==
    { Greet("1.1.0", "stable", <<"1.0.0">>, <<>>, Reads),
      Greet("2.0.0", "stable", <<"1.0.0">>, <<>>, Reads),
      Greet("0.9.0", "stable", <<"1.0.0">>, <<>>, Reads),
      Greet("1.1.0", "beta", <<"1.0.0">>, Who, <<>>),
      Greet("1.x", "stable", <<>>, Who, Reads),
      Greet("1.1.0", "stable", <<"1.x">>, Who, Reads),
      Greet("", "stable", <<>>, Who, Reads) }
CompiledModules ==
    { [name |-> "test", elements |-> <<fn>>] : fn \in {First} \cup Successors }
    \cup { [name |-> "test", elements |-> <<First, fn>>] : fn \in Successors }
    \cup { [name |-> "test", elements |-> <<fn, First>>] : fn \in Successors }

\* registerModule is called while the functions registered and the diagnostics built
\* are together fewer than this.
MaxCompiled == 3

NextContext ==
    \E module \in CompiledModules :
        /\ registers + Len(diagnostics) < MaxCompiled
        /\ registerModule(module)
        /\ UNCHANGED notCtx

-----------------------------------------------------------------------------
(* Virtual machine (runtime/vm/vm.ts).  A step is one executeInstruction;    *)
(* the frames are the executeFunction calls in progress.  The state object   *)
(* executeCall builds for the callee, {...state, ...}, has its own ip,       *)
(* halted, locals and args and the caller's stack array.                     *)

\* `${name}:${version}`, the key of module.functions
key(name, version) == Chars(name) \o <<":">> \o Chars(version)

\* String.prototype.startsWith
startsWith(s, prefix) == Len(prefix) <= Len(s) /\ SubSeq(s, 1, Len(prefix)) = prefix

NoFunction == [undefined |-> TRUE]

\* module.functions.get(fnKey)
functionsGet(module, fnKey) ==
    IF \E i \in 1..Len(module) : module[i].key = fnKey
    THEN module[CHOOSE i \in 1..Len(module) : module[i].key = fnKey].fn
    ELSE NoFunction

\* The keys that start with name + ':', in the Map's order
versionsOf(module, name) ==
    SelectSeq([i \in 1..Len(module) |-> module[i].key],
              LAMBDA k : startsWith(k, Chars(name) \o <<":">>))

\* VM.findLatestFunction: the last such key; with none it throws a VMError
findLatestFunction(module, name) == versionsOf(module, name)[Len(versionsOf(module, name))]

\* The mutant: the gate asks for every required role.
checkSecurityEvery(fn, principal) ==
    \/ Len(fn.requiredRoles) = 0
    \/ \A role \in Range(fn.requiredRoles) : includes(principal.roles, role)

\* VM.checkSecurity: TRUE when it returns, FALSE when it throws the SecurityError
checkSecurity(fn, principal) ==
    \/ Len(fn.requiredRoles) = 0
    \/ \E role \in Range(fn.requiredRoles) : includes(principal.roles, role)

\* n times state.stack.pop(), each unshifted onto the list: pop of an empty array is undefined
popped(stack, n) ==
    IF Len(stack) >= n THEN SubSeq(stack, Len(stack) - n + 1, Len(stack))
    ELSE [i \in 1..(n - Len(stack)) |-> Undefined] \o stack
remaining(stack, n) == IF Len(stack) >= n THEN SubSeq(stack, 1, Len(stack) - n) ELSE <<>>

\* The part of VMState a call of executeFunction owns
frame(fnKey, args) == [fn |-> fnKey, ip |-> 0, halted |-> FALSE, locals |-> <<>>, args |-> args]

Settled(error, message, value) == [error |-> error, message |-> message, value |-> value]
Pending == Settled("", "", unit)

\* no execution waits
ConInit == vmSuspended = <<>>

VMInit ==
    /\ vmModule = <<>>
    /\ vmPrincipal = [id |-> "", roles |-> <<>>]
    /\ vmFrames = <<>>
    /\ vmStack = <<>>
    /\ vmStatus = "idle"
    /\ vmResult = Pending
    /\ vmCall = [op |-> "init", fn |-> <<>>, args |-> <<>>]
    /\ vmTrace = <<>>
    /\ vmCallers = <<>>
    /\ executes = 0

\* An error leaves the instruction loop of every frame: the promise is rejected.
throw(error, message) ==
    /\ vmStatus' = "threw"
    /\ vmResult' = Settled(error, message, unit)
    /\ vmFrames' = vmFrames

\* VM.execute up to the first instruction
started(module, functionName, args, principal) ==
    /\ executes' = executes + 1
    /\ vmModule' = module
    /\ vmPrincipal' = principal
    /\ vmStack' = <<>>
    /\ vmTrace' = <<>>
    /\ vmCallers' = <<<<>>>>
    /\ vmCall' = [op |-> "execute", fn |-> functionName, args |-> args]
    /\ IF functionsGet(module, functionName) = NoFunction
       THEN /\ vmStatus' = "threw" /\ vmResult' = Settled("VMError", "Function not found", unit)
            /\ vmFrames' = <<>>
       ELSE IF Len(args) # functionsGet(module, functionName).arity
       THEN /\ vmStatus' = "threw" /\ vmResult' = Settled("VMError", "Arity mismatch", unit)
            /\ vmFrames' = <<>>
       ELSE IF ~checkSecurity(functionsGet(module, functionName), principal)
       THEN /\ vmStatus' = "threw" /\ vmResult' = Settled("SecurityError", "Permission denied", unit)
            /\ vmFrames' = <<>>
       ELSE /\ vmStatus' = "running" /\ vmResult' = Pending
            /\ vmFrames' = <<frame(functionName, args)>>

\* VM.execute, called when no execution is in progress
vmExecute(module, functionName, args, principal) ==
    /\ vmStatus # "running"
    /\ started(module, functionName, args, principal)

\* The frame whose loop is running, its function and the instruction at its ip
top == vmFrames[Len(vmFrames)]
currentFunction == functionsGet(vmModule, top.fn)
instr == currentFunction.instructions[top.ip + 1]

\* executeFunction's loop condition holds and the instruction fetched has this opcode
Fetch(opcode) ==
    /\ vmStatus = "running"
    /\ top.ip < Len(currentFunction.instructions) /\ ~top.halted
    /\ instr.opcode = opcode

\* state.ip++ in the innermost of these frames
advanced(frames) == [frames EXCEPT ![Len(frames)].ip = @ + 1]

Ran(op) ==
    /\ vmTrace' = Append(vmTrace, [fn |-> top.fn, ip |-> top.ip])
    /\ vmCall' = [op |-> op, fn |-> top.fn, args |-> <<>>]
    /\ UNCHANGED <<vmModule, vmPrincipal, vmCallers, executes>>

PUSH ==
    /\ Fetch("PUSH") /\ Ran("PUSH")
    /\ vmStack' = Append(vmStack, instr.operand)
    /\ vmFrames' = advanced(vmFrames)
    /\ UNCHANGED <<vmStatus, vmResult>>

LOAD_ARG ==
    /\ Fetch("LOAD_ARG") /\ Ran("LOAD_ARG")
    /\ IF instr.operand >= Len(top.args)
       THEN throw("VMError", "Argument index out of bounds") /\ UNCHANGED vmStack
       ELSE /\ vmStack' = Append(vmStack, top.args[instr.operand + 1])
            /\ vmFrames' = advanced(vmFrames)
            /\ UNCHANGED <<vmStatus, vmResult>>

RETURN ==
    /\ Fetch("RETURN") /\ Ran("RETURN")
    /\ vmFrames' = advanced([vmFrames EXCEPT ![Len(vmFrames)].halted = TRUE])
    /\ UNCHANGED <<vmStack, vmStatus, vmResult>>

\* The key a CALL resolves to: the named version, or with none the one findLatestFunction picks
calleeKey(callOp) ==
    IF callOp.version # "" THEN key(callOp.name, callOp.version)
    ELSE findLatestFunction(vmModule, callOp.name)

\* VM.executeCall up to the callee's first instruction
CALL ==
    /\ Fetch("CALL")
    /\ vmTrace' = Append(vmTrace, [fn |-> top.fn, ip |-> top.ip])
    /\ vmStack' = remaining(vmStack, instr.operand.arity)
    /\ UNCHANGED <<vmModule, vmPrincipal, executes>>
    /\ IF instr.operand.version = "" /\ versionsOf(vmModule, instr.operand.name) = <<>>
       THEN /\ throw("VMError", "Function not found")
            /\ vmCall' = [op |-> "CALL", fn |-> <<>>, args |-> popped(vmStack, instr.operand.arity)]
       ELSE /\ vmCall' = [op |-> "CALL", fn |-> calleeKey(instr.operand),
                          args |-> popped(vmStack, instr.operand.arity)]
            /\ IF functionsGet(vmModule, calleeKey(instr.operand)) = NoFunction
               THEN throw("VMError", "Function not found")
               ELSE IF ~checkSecurity(functionsGet(vmModule, calleeKey(instr.operand)), vmPrincipal)
               THEN throw("SecurityError", "Permission denied")
               ELSE /\ vmFrames' = Append(vmFrames, frame(calleeKey(instr.operand),
                                                          popped(vmStack, instr.operand.arity)))
                    /\ UNCHANGED <<vmStatus, vmResult>>
    /\ vmCallers' = IF Len(vmFrames') > Len(vmFrames)
                    THEN Append(vmCallers, remaining(vmStack, instr.operand.arity))
                    ELSE vmCallers

\* effectOp.auditRequired: undefined, and so not set, on an operand built without it
auditRequiredOf(effectOp) == "auditRequired" \in DOMAIN effectOp /\ effectOp.auditRequired

\* VM.executeEffect: the registry's execute is awaited; its error is not caught
EXEC_EFFECT ==
    /\ Fetch("EXEC_EFFECT") /\ Ran("EXEC_EFFECT")
    /\ execute(instr.operand.handler, instr.operand.operation,
               popped(vmStack, instr.operand.paramCount), vmPrincipal,
               [auditRequired |-> auditRequiredOf(instr.operand), classification |-> ""])
    /\ IF effCall'.threw
       THEN /\ throw("Error", effCall'.error)
            /\ vmStack' = remaining(vmStack, instr.operand.paramCount)
       ELSE /\ vmStack' = Append(remaining(vmStack, instr.operand.paramCount), effCall'.value)
            /\ vmFrames' = advanced(vmFrames)
            /\ UNCHANGED <<vmStatus, vmResult>>

\* executeFunction after its loop: the top of the stack, or unit, is the result; the
\* caller's executeCall pushes it and the caller's loop goes on, VM.execute resolves with it
functionReturns ==
    /\ vmStatus = "running"
    /\ top.ip >= Len(currentFunction.instructions) \/ top.halted
    /\ vmCall' = [op |-> "return", fn |-> top.fn, args |-> <<>>]
    /\ vmCallers' = SubSeq(vmCallers, 1, Len(vmCallers) - 1)
    /\ UNCHANGED <<vmModule, vmPrincipal, vmTrace, executes>>
    /\ LET result == IF Len(vmStack) > 0 THEN vmStack[Len(vmStack)] ELSE unit
       IN  IF Len(vmFrames) = 1
           THEN /\ vmStatus' = "returned"
                /\ vmResult' = Settled("", "", result)
                /\ vmFrames' = <<>>
                /\ vmStack' = remaining(vmStack, 1)
           ELSE /\ vmFrames' = advanced(SubSeq(vmFrames, 1, Len(vmFrames) - 1))
                /\ vmStack' = Append(remaining(vmStack, 1), result)
                /\ UNCHANGED <<vmStatus, vmResult>>

\* The modules run: report passes its argument to access_data, which logs it; outer
\* pushes a value and calls inner, which returns at once
Instruction(opcode, operand) == [opcode |-> opcode, operand |-> operand]
Versioned(name, version, arity, requiredRoles, instructions) ==
    [key |-> key(name, version),
     fn |-> [name |-> name, version |-> parseVersion(version), arity |-> arity,
             instructions |-> instructions, requiredRoles |-> requiredRoles]]
Function(name, arity, requiredRoles, instructions) ==
    Versioned(name, "1.0.0", arity, requiredRoles, instructions)
Reporting(version, requiredRoles, auditRequired) ==
    << Function("report", 1, <<>>,
                << Instruction("LOAD_ARG", 0),
                   Instruction("CALL", [name |-> "access_data", version |-> version, arity |-> 1]),
                   Instruction("RETURN", 0) >>),
       Function("access_data", 1, requiredRoles,
                << Instruction("LOAD_ARG", 0),
                   Instruction("EXEC_EFFECT", [handler |-> "log", operation |-> "info",
                                               paramCount |-> 1, auditRequired |-> auditRequired]),
                   Instruction("RETURN", 0) >>),
       Function("greet", 0, <<>>,
                << Instruction("PUSH", string("x")),
                   Instruction("CALL", [name |-> "missing", version |-> "", arity |-> 0]) >>),
       Function("outer", 0, <<>>,
                << Instruction("PUSH", string("x")),
                   Instruction("CALL", [name |-> "inner", version |-> version, arity |-> 0]),
                   Instruction("RETURN", 0) >>),
       Function("inner", 0, <<>>, << Instruction("RETURN", 0) >>) >>
\* outer calls inner without a version; the versions of inner, compiled in this
\* order, each return their own version string
Releases(versions) ==
    << Function("outer", 0, <<>>,
                << Instruction("CALL", [name |-> "inner", version |-> "", arity |-> 0]),
                   Instruction("RETURN", 0) >>) >>
    \o [i \in 1..Len(versions) |->
           Versioned("inner", versions[i], 0, <<>>,
                     << Instruction("PUSH", string(versions[i])), Instruction("RETURN", 0) >>)]
Modules ==
    { Reporting("", <<"user", "ops">>, TRUE), Reporting("1.0.0", <<>>, FALSE),
      Releases(<<"1.0.0", "2.0.0">>), Releases(<<"2.0.0", "1.0.0">>) }
VMPrincipals == Principals \cup { [id |-> "carol", roles |-> <<"user">>] }
Entries == { key("report", "1.0.0"), key("access_data", "1.0.0"), key("greet", "1.0.0"),
             key("report", "2.0.0"), key("outer", "1.0.0") }
Arguments == { <<>>, <<string("x")>> }

\* The security contexts the VM is constructed with: an empty one, and one where the
\* policy p1 denies the role user the permission of access_data
SecurityContexts ==
    { [roles |-> <<>>, policies |-> <<>>, functions |-> <<>>],
      [roles |-> MapSet(<<>>, "user", [name |-> "user", permissions |-> <<"data.access">>,
                                        inherits |-> <<>>]),
       policies |-> << [name |-> "p1",
                        rules |-> << [effect |-> "deny", roles |-> <<"user">>,
                                      permissions |-> <<"data.access">>,
                                      versionConstraint |-> NoConstraint] >>] >>,
       functions |-> MapSet(<<>>, "access_data",
                            [name |-> "access_data", requiredRoles |-> <<"user">>,
                             requiredPermissions |-> <<"data.access">>])] }

\* new VM(effectHandlers, securityContext)
InitVM ==
    /\ \E c \in SecurityContexts :
          roles = c.roles /\ policies = c.policies /\ functions = c.functions
    /\ polCall = Registered("init")
    /\ EffInit /\ VerInit /\ VMInit /\ MigInit /\ CtxInit /\ ConInit

\* At most this many calls of VM.execute in a run.
MaxExecute == 2

NextVM ==
    \/ register("log") /\ UNCHANGED notEff
    \/ \E module \in Modules, functionName \in Entries, args \in Arguments,
          principal \in VMPrincipals :
          /\ executes < MaxExecute
          /\ vmExecute(module, functionName, args, principal)
          /\ UNCHANGED notVM
    \/ PUSH /\ UNCHANGED notVM
    \/ LOAD_ARG /\ UNCHANGED notVM
    \/ CALL /\ UNCHANGED notVM
    \/ EXEC_EFFECT /\ UNCHANGED <<secVars, verVars, migVars, ctxVars, conVars>>
    \/ RETURN /\ UNCHANGED notVM
    \/ functionReturns /\ UNCHANGED notVM

-----------------------------------------------------------------------------
(* Bytecode compiler (runtime/vm/compiler.ts) and the instructions of the   *)
(* VM its code runs on.  An expression is a record with the type of its AST *)
(* node; ctx.locals, which compileLet grows as it goes, is handed on from   *)
(* one compiled expression to the next.                                     *)

int(value) == [type |-> "int", value |-> value]

\* what a compile method leaves: the instructions emitted and ctx.locals
Emitted(code, locals) == [code |-> code, locals |-> locals]

\* isEffect on the parts of the qualified name joined with '.'
isEffect(parts) == Len(parts) > 1 /\ parts[1] \in {"db", "http", "fs", "log", "event"}

\* compileIdentifier
compileIdentifier(expr, locals, argCount) ==
    IF expr.name \in DOMAIN locals /\ locals[expr.name] < argCount
    THEN Instruction("LOAD_ARG", locals[expr.name])
    ELSE Instruction("LOAD_VAR", expr.name)

\* compileBinaryOp's switch on the operator
operatorCode(operator) ==
    CASE operator = "+" -> "ADD"
      [] operator = "-" -> "SUB"
      [] operator = "*" -> "MUL"

RECURSIVE compileExpression(_, _, _)
RECURSIVE compileEach(_, _, _, _, _)
RECURSIVE compileBindings(_, _, _, _)

\* compileExpression on each of these in order, with this emitted between one and the
\* next: nothing between the arguments of a call, a POP between the expressions of a body
compileEach(exprs, i, acc, argCount, between) ==
    IF i > Len(exprs) THEN acc
    ELSE compileEach(exprs, i + 1,
                     Emitted(acc.code
                               \o compileExpression(exprs[i], acc.locals, argCount).code
                               \o (IF i < Len(exprs) THEN between ELSE <<>>),
                             compileExpression(exprs[i], acc.locals, argCount).locals),
                     argCount, between)

\* compileLet's first loop: the value's code, the local's index, STORE_VAR
compileBindings(bindings, i, acc, argCount) ==
    IF i > Len(bindings) THEN acc
    ELSE compileBindings(bindings, i + 1,
                         Emitted(acc.code
                                   \o compileExpression(bindings[i].value, acc.locals, argCount).code
                                   \o <<Instruction("STORE_VAR", bindings[i].name)>>,
                                 MapSet(compileExpression(bindings[i].value, acc.locals,
                                                          argCount).locals,
                                        bindings[i].name,
                                        Cardinality(DOMAIN compileExpression(
                                            bindings[i].value, acc.locals, argCount).locals))),
                         argCount)

\* compileCall when the name is not an effect's
callCode(expr) ==
    Instruction(IF Len(expr.function.parts) > 1 THEN "CALL_NATIVE" ELSE "CALL",
                [name |-> expr.function.parts[1], version |-> expr.function.version,
                 arity |-> Len(expr.args)])

\* compileEffectCall's operand: handler, operation and paramCount
effectCode(expr) ==
    Instruction("EXEC_EFFECT", [handler |-> expr.function.parts[1],
                                operation |-> expr.function.parts[2],
                                paramCount |-> Len(expr.args)])

compileExpression(expr, locals, argCount) ==
    CASE expr.type = "Literal" -> Emitted(<<Instruction("PUSH", expr.value)>>, locals)
      [] expr.type = "Identifier" -> Emitted(<<compileIdentifier(expr, locals, argCount)>>, locals)
      [] expr.type = "Let" ->
            compileEach(expr.body, 1,
                        compileBindings(expr.bindings, 1, Emitted(<<>>, locals), argCount),
                        argCount, <<Instruction("POP", 0)>>)
      [] expr.type = "Do" ->
            compileEach(expr.expressions, 1, Emitted(<<>>, locals), argCount,
                        <<Instruction("POP", 0)>>)
      [] expr.type = "Call" ->
            Emitted(compileEach(expr.args, 1, Emitted(<<>>, locals), argCount, <<>>).code
                      \o <<IF isEffect(expr.function.parts) THEN effectCode(expr)
                           ELSE callCode(expr)>>,
                    compileEach(expr.args, 1, Emitted(<<>>, locals), argCount, <<>>).locals)
      [] expr.type = "BinaryOp" ->
            Emitted(compileEach(<<expr.left, expr.right>>, 1, Emitted(<<>>, locals),
                                argCount, <<>>).code
                      \o <<Instruction(operatorCode(expr.operator), 0)>>,
                    compileEach(<<expr.left, expr.right>>, 1, Emitted(<<>>, locals),
                                argCount, <<>>).locals)

\* compileFunction: the inputs are locals 0, 1, ..; the body's code and the implicit RETURN
compileFunction(fn) ==
    [name |-> fn.name, version |-> parseVersion(fn.version), arity |-> Len(fn.inputs),
     instructions |->
         compileExpression(fn.body, [name \in Range(fn.inputs) |->
                                        (CHOOSE i \in 1..Len(fn.inputs) : fn.inputs[i] = name) - 1],
                           Len(fn.inputs)).code
           \o <<Instruction("RETURN", 0)>>,
     requiredRoles |-> fn.requiredRoles]

\* BytecodeCompiler.compile: the functions under `${name}:${version}`, in the order of
\* module.elements
compile(elements) ==
    [i \in 1..Len(elements) |->
        [key |-> key(elements[i].name, elements[i].version), fn |-> compileFunction(elements[i])]]

\* state.locals.set
localsSet(frames, name, value) ==
    [frames EXCEPT ![Len(frames)].locals = MapSet(@, name, value)]

POP ==
    /\ Fetch("POP") /\ Ran("POP")
    /\ vmStack' = remaining(vmStack, 1)
    /\ vmFrames' = advanced(vmFrames)
    /\ UNCHANGED <<vmStatus, vmResult>>

LOAD_VAR ==
    /\ Fetch("LOAD_VAR") /\ Ran("LOAD_VAR")
    /\ IF instr.operand \notin DOMAIN top.locals \/ top.locals[instr.operand] = Undefined
       THEN throw("VMError", "Undefined variable") /\ UNCHANGED vmStack
       ELSE /\ vmStack' = Append(vmStack, top.locals[instr.operand])
            /\ vmFrames' = advanced(vmFrames)
            /\ UNCHANGED <<vmStatus, vmResult>>

\* the top of the stack is stored and stays where it is
STORE_VAR ==
    /\ Fetch("STORE_VAR") /\ Ran("STORE_VAR")
    /\ vmFrames' = advanced(localsSet(vmFrames, instr.operand, popped(vmStack, 1)[1]))
    /\ UNCHANGED <<vmStack, vmStatus, vmResult>>

\* executeBinaryOp for ADD: b, then a, are popped; a type check on undefined is a
\* TypeError, and operands that are not both int, float or string a TypeMismatchError
ADD ==
    /\ Fetch("ADD") /\ Ran("ADD")
    /\ vmStack' = IF Undefined \notin Range(popped(vmStack, 2))
                     /\ \A i \in 1..2 : popped(vmStack, 2)[i].type = "int"
                  THEN Append(remaining(vmStack, 2),
                              int(popped(vmStack, 2)[1].value + popped(vmStack, 2)[2].value))
                  ELSE remaining(vmStack, 2)
    /\ IF Undefined \in Range(popped(vmStack, 2))
       THEN throw("TypeError", "Cannot read properties of undefined")
       ELSE IF \E i \in 1..2 : popped(vmStack, 2)[i].type # "int"
       THEN throw("TypeMismatchError", "int, float, or string")
       ELSE vmFrames' = advanced(vmFrames) /\ UNCHANGED <<vmStatus, vmResult>>

\* The module compiled.  two_and_let adds 2 and a let that binds x to 1 and gives x;
\* let_and_two adds them the other way round; audited, declared audit-required and for
\* viewers, logs its input; last_of gives the last of two expressions.
Literal(value) == [type |-> "Literal", value |-> value]
Identifier(name) == [type |-> "Identifier", name |-> name]
Binding(name, value) == [name |-> name, value |-> value]
LetX == [type |-> "Let", bindings |-> <<Binding("x", Literal(int(1)))>>,
         body |-> <<Identifier("x")>>]
FunctionNode(name, inputs, requiredRoles, auditRequired, body) ==
    [name |-> name, version |-> "1.0.0", inputs |-> inputs, requiredRoles |-> requiredRoles,
     auditRequired |-> auditRequired, body |-> body]
Source ==
    << FunctionNode("two_and_let", <<>>, <<>>, FALSE,
                    [type |-> "BinaryOp", operator |-> "+", left |-> Literal(int(2)),
                     right |-> LetX]),
       FunctionNode("let_and_two", <<>>, <<>>, FALSE,
                    [type |-> "BinaryOp", operator |-> "+", left |-> LetX,
                     right |-> Literal(int(2))]),
       FunctionNode("audited", <<"msg">>, <<"viewer">>, TRUE,
                    [type |-> "Call", function |-> [parts |-> <<"log", "info">>, version |-> ""],
                     args |-> <<Identifier("msg")>>]),
       FunctionNode("last_of", <<>>, <<>>, FALSE,
                    [type |-> "Do", expressions |-> <<Literal(int(1)), Literal(int(2))>>]) >>

\* The roles of the module, as the analyzer registers them: admin inherits viewer
Analysed ==
    [roles |-> MapSet(MapSet(<<>>, "viewer", [name |-> "viewer", permissions |-> <<>>,
                                              inherits |-> <<>>]),
                      "admin", [name |-> "admin", permissions |-> <<>>,
                                inherits |-> <<"viewer">>]),
     functions |-> [name \in {Source[i].name : i \in 1..Len(Source)} |->
                      [name |-> name,
                       requiredRoles |->
                           Source[CHOOSE i \in 1..Len(Source) : Source[i].name = name].requiredRoles,
                       requiredPermissions |-> <<>>]]]

InitCompiled ==
    /\ roles = Analysed.roles /\ policies = <<>> /\ functions = Analysed.functions
    /\ polCall = Registered("init")
    /\ handlers = {"log"}
    /\ tables = <<>> /\ files = <<>> /\ logs = <<>> /\ heap = <<>> /\ auditLogs = <<>>
    /\ returned = <<>> /\ dispatched = 0 /\ effCall = [op |-> "init"]
    /\ VerInit /\ VMInit /\ MigInit /\ CtxInit /\ ConInit

CompiledPrincipals ==
    { [id |-> "alice", roles |-> <<"admin">>], [id |-> "carol", roles |-> <<"viewer">>] }

NextCompiled ==
    \/ \E i \in 1..Len(Source), principal \in CompiledPrincipals :
          /\ executes < MaxExecute
          /\ vmExecute(compile(Source), key(Source[i].name, Source[i].version),
                       [k \in 1..Len(Source[i].inputs) |-> string("x")], principal)
          /\ UNCHANGED notVM
    \/ PUSH /\ UNCHANGED notVM
    \/ POP /\ UNCHANGED notVM
    \/ LOAD_ARG /\ UNCHANGED notVM
    \/ LOAD_VAR /\ UNCHANGED notVM
    \/ STORE_VAR /\ UNCHANGED notVM
    \/ ADD /\ UNCHANGED notVM
    \/ EXEC_EFFECT /\ UNCHANGED <<secVars, verVars, migVars, ctxVars, conVars>>
    \/ RETURN /\ UNCHANGED notVM
    \/ functionReturns /\ UNCHANGED notVM

-----------------------------------------------------------------------------
(* Concurrent executions on one VM (runtime/vm/vm.ts).  VM.execute is async: *)
(* a caller may call it again while an earlier call waits at an await.  One  *)
(* execution runs at a time; the variables of the virtual machine above hold *)
(* the state object of that one, vmSuspended those of the others.            *)

\* the VMState object of the execution that runs, with the instructions it has run
stateObject ==
    [module |-> vmModule, principal |-> vmPrincipal, frames |-> vmFrames, stack |-> vmStack,
     callers |-> vmCallers, trace |-> vmTrace]

without(seq, i) == SubSeq(seq, 1, i - 1) \o SubSeq(seq, i + 1, Len(seq))

\* VM.execute, called while an execution is in progress, which then waits
executeMeanwhile(module, functionName, args, principal) ==
    /\ vmStatus = "running"
    /\ vmSuspended' = Append(vmSuspended, stateObject)
    /\ started(module, functionName, args, principal)

\* The mutant: the operand stack is the VM's and holds the operands of every execution.
resumeSharingStack(i) ==
    /\ i \in 1..Len(vmSuspended)
    /\ vmSuspended' = IF vmStatus = "running" THEN Append(without(vmSuspended, i), stateObject)
                      ELSE without(vmSuspended, i)
    /\ vmModule' = vmSuspended[i].module
    /\ vmPrincipal' = vmSuspended[i].principal
    /\ vmFrames' = vmSuspended[i].frames
    /\ vmStack' = vmSuspended[i].stack \o vmStack
    /\ vmCallers' = vmSuspended[i].callers
    /\ vmTrace' = vmSuspended[i].trace
    /\ vmStatus' = "running"
    /\ vmResult' = Pending
    /\ vmCall' = [op |-> "resume", fn |-> vmSuspended[i].frames[1].fn, args |-> <<>>]
    /\ UNCHANGED executes

\* The await of a waiting execution is over: its loop goes on with its own state
\* object, and the execution that ran, if it has not settled, waits
resume(i) ==
    /\ i \in 1..Len(vmSuspended)
    /\ vmSuspended' = IF vmStatus = "running" THEN Append(without(vmSuspended, i), stateObject)
                      ELSE without(vmSuspended, i)
    /\ vmModule' = vmSuspended[i].module
    /\ vmPrincipal' = vmSuspended[i].principal
    /\ vmFrames' = vmSuspended[i].frames
    /\ vmStack' = vmSuspended[i].stack
    /\ vmCallers' = vmSuspended[i].callers
    /\ vmTrace' = vmSuspended[i].trace
    /\ vmStatus' = "running"
    /\ vmResult' = Pending
    /\ vmCall' = [op |-> "resume", fn |-> vmSuspended[i].frames[1].fn, args |-> <<>>]
    /\ UNCHANGED executes

\* new VM(effectHandlers, securityContext) with the log handler registered
InitConcurrent ==
    /\ SecInit /\ VerInit /\ VMInit /\ MigInit /\ CtxInit /\ ConInit
    /\ handlers = {"log"}
    /\ tables = <<>> /\ files = <<>> /\ logs = <<>> /\ heap = <<>> /\ auditLogs = <<>>
    /\ returned = <<>> /\ dispatched = 0 /\ effCall = [op |-> "init"]

\* The calls of VM.execute made concurrently: report logs its argument through
\* access_data, outer calls inner with a value on its stack or for its latest version
ConcurrentCalls ==
    { [module |-> Reporting("1.0.0", <<>>, FALSE), fn |-> key("report", "1.0.0"),
       args |-> <<string("x")>>],
      [module |-> Reporting("1.0.0", <<>>, FALSE), fn |-> key("outer", "1.0.0"), args |-> <<>>],
      [module |-> Releases(<<"1.0.0", "2.0.0">>), fn |-> key("outer", "1.0.0"), args |-> <<>>] }

NextConcurrent ==
    \/ \E call \in ConcurrentCalls, principal \in VMPrincipals :
          /\ executes < MaxExecute
          /\ vmExecute(call.module, call.fn, call.args, principal)
          /\ UNCHANGED notVM
    \/ \E call \in ConcurrentCalls, principal \in VMPrincipals :
          /\ executes < MaxExecute
          /\ executeMeanwhile(call.module, call.fn, call.args, principal)
          /\ UNCHANGED <<secVars, effVars, verVars, migVars, ctxVars>>
    \/ \E i \in 1..MaxExecute :
          resume(i) /\ UNCHANGED <<secVars, effVars, verVars, migVars, ctxVars>>
    \/ PUSH /\ UNCHANGED notVM
    \/ LOAD_ARG /\ UNCHANGED notVM
    \/ CALL /\ UNCHANGED notVM
    \/ EXEC_EFFECT /\ UNCHANGED <<secVars, verVars, migVars, ctxVars, conVars>>
    \/ RETURN /\ UNCHANGED notVM
    \/ functionReturns /\ UNCHANGED notVM

-----------------------------------------------------------------------------
(* Queries after registration.  The security context and the migrations are *)
(* registered; modules go on being registered through the compiler context, *)
(* and between the registrations the context, the registries, the policy    *)
(* evaluator and the VM are asked: CompilerContext.resolveFunctionVersion,  *)
(* VersionRegistry.getLatest and getReplacementChain,                       *)
(* MigrationRegistry.buildPath, PolicyEvaluator.evaluate, VM.execute.       *)

Secured ==
    [roles |-> MapSet(<<>>, "user", [name |-> "user", permissions |-> <<"data.access">>,
                                      inherits |-> <<>>]),
     policies |-> <<>>,
     functions |-> MapSet(<<>>, "access_data",
                          [name |-> "access_data", requiredRoles |-> <<"user">>,
                           requiredPermissions |-> <<"data.access">>])]

InitQueries ==
    /\ roles = Secured.roles /\ policies = Secured.policies /\ functions = Secured.functions
    /\ polCall = Registered("init")
    /\ migrations = MapSet(<<>>, "greet", <<[fromVersion |-> parseVersion("1.0.0"),
                                             toVersion |-> parseVersion("2.0.0"),
                                             validated |-> FALSE]>>)
    /\ migCall = [op |-> "register"]
    /\ EffInit /\ VerInit /\ VMInit /\ CtxInit /\ ConInit

QueriedModules ==
    { [name |-> "test", elements |-> <<First>>],
      [name |-> "test", elements |-> <<Greet("2.0.0", "stable", <<"1.0.0">>, <<>>, Reads)>>] }
QueriedConstraints == { "^1.0.0", "2.0.x" }

\* The queries, each with all it leaves alone
Queries ==
    \/ \E constraintStr \in QueriedConstraints :
          /\ registers + Len(diagnostics) < MaxCompiled
          /\ resolveFunctionVersion("greet", constraintStr)
          /\ UNCHANGED notCtx /\ UNCHANGED verVars
    \/ Query("getLatest", "greet", getLatest("greet")) /\ UNCHANGED notVer
    \/ Query("getReplacementChain", "greet",
             getReplacementChain("greet", parseVersion("1.0.0"))) /\ UNCHANGED notVer
    \/ BuildPath("greet", parseVersion("1.0.0"), parseVersion("2.0.0"))
          /\ UNCHANGED notMig /\ UNCHANGED verVars
    \/ Evaluate("user", "access_data", "1.0.0") /\ UNCHANGED notSec
    \/ /\ executes < MaxExecute
       /\ vmExecute(Releases(<<"1.0.0", "2.0.0">>), key("outer", "1.0.0"), <<>>,
                    [id |-> "carol", roles |-> <<"user">>])
       /\ UNCHANGED notVM
    \/ PUSH /\ UNCHANGED notVM
    \/ CALL /\ UNCHANGED notVM
    \/ RETURN /\ UNCHANGED notVM
    \/ functionReturns /\ UNCHANGED notVM

NextQueries ==
    \/ \E module \in QueriedModules :
          /\ registers + Len(diagnostics) < MaxCompiled
          /\ registerModule(module)
          /\ UNCHANGED notCtx
    \/ Queries

-----------------------------------------------------------------------------
(* Specifications                                                          *)

Init == SecInit /\ EffInit /\ VerInit /\ VMInit /\ MigInit /\ CtxInit /\ ConInit

SpecPolicy == Init /\ [][NextPolicy]_vars

SpecEffects == Init /\ [][NextEffects]_vars

SpecAudit == Init /\ [][NextAudit]_vars

SpecRegistry == Init /\ [][NextRegistry]_vars

SpecVM == InitVM /\ [][NextVM]_vars

SpecMigration == Init /\ [][NextMigration]_vars

SpecContext == Init /\ [][NextContext]_vars
SpecRoles == Init /\ [][NextRoles]_vars
SpecConstraint == Init /\ [][NextConstraint]_vars
SpecConcurrent == InitConcurrent /\ [][NextConcurrent]_vars
SpecQueries == InitQueries /\ [][NextQueries]_vars
SpecChains == Init /\ [][NextChains]_vars
SpecCompiled == InitCompiled /\ [][NextCompiled]_vars

-----------------------------------------------------------------------------
(* Claims about the policy evaluator                                       *)

\* Some rule with this effect, in some registered policy, passes evaluatePolicy's
\* tests for the request of the last evaluate call.
RuleOfEffectMatches(effect) ==
    \E i \in 1..Len(policies) : \E j \in 1..Len(policies[i].rules) :
        /\ policies[i].rules[j].effect = effect
        /\ ruleMatches(policies[i].rules[j], getEffectiveRoles(polCall.role),
                       polCall.functionName, polCall.functionVersion)

BothEffectsMatch == RuleOfEffectMatches("deny") /\ RuleOfEffectMatches("allow")

DeniedByDenyRule ==
    /\ polCall.decision.allowed = FALSE
    /\ polCall.decision.matchedRule.effect = "deny"
    /\ \E i \in 1..Len(policies) : \E j \in 1..Len(policies[i].rules) :
          /\ policies[i].rules[j] = polCall.decision.matchedRule
          /\ policies[i].name = polCall.decision.policy

\* C1 as stated: for every security context and every request, when a deny rule and
\* an allow rule both match the request, evaluate returns allowed = false with a deny
\* rule as the matched rule.
C1_DenyPrecedenceEveryRequest ==
    (polCall.op = "evaluate" /\ BothEffectsMatch) => DeniedByDenyRule

\* C1 amended: for every security context and every request whose role is registered,
\* when a deny rule and an allow rule both match the request, evaluate returns
\* allowed = false with a matching deny rule as the matched rule, whatever the order
\* of the policies and of their rules; for an unregistered role it returns
\* allowed = false with no matched rule.
C1_DenyPrecedence ==
    polCall.op = "evaluate" =>
        /\ (polCall.role \in DOMAIN roles /\ BothEffectsMatch) => DeniedByDenyRule
        /\ polCall.role \notin DOMAIN roles =>
              (polCall.decision.allowed = FALSE /\ polCall.decision.matchedRule = NoRule)

\* C1 witness: evaluate was called for a registered role, both effects match, and the
\* first matching rule in policy and rule order is an allow rule.
C1_Witness ==
    /\ polCall.op = "evaluate"
    /\ polCall.role \in DOMAIN roles
    /\ BothEffectsMatch
    /\ allDecisions(policies, getEffectiveRoles(polCall.role),
                    polCall.functionName, polCall.functionVersion)[1].allowed = TRUE
    /\ DeniedByDenyRule

-----------------------------------------------------------------------------
(* Claims about the role queries                                             *)

\* C16: roleHasPermission and canRoleAccessFunction return an answer for every role
\* graph, cyclic ones and queries for a permission no role lists included.
\* (getRolePermissions and getEffectiveRoles carry a visited set and always return.)
C16_RoleQueriesTerminate ==
    polCall.op \in {"roleHasPermission", "canRoleAccessFunction"} =>
        polCall.result \in {"true", "false"}

\* the roles a role inherits from directly
Parents(roleName) == IF roleName \in DOMAIN roles THEN Range(roles[roleName].inherits) ELSE {}

\* the roles reached from the set S along inherits, S included
RECURSIVE Closure(_)
Closure(S) ==
    IF UNION {Parents(r) : r \in S} \subseteq S THEN S
    ELSE Closure(S \cup UNION {Parents(r) : r \in S})

Acyclic == \A r \in DOMAIN roles : r \notin Closure(Parents(r))

\* the permission is listed by the role or by one of its ancestors
ListedByAncestor(roleName, permissionName) ==
    \E a \in Closure({roleName}) \cap DOMAIN roles : permissionName \in Range(roles[a].permissions)

\* C17: on an acyclic role graph roleHasPermission(R, p) is true exactly when p is
\* listed by R or by an ancestor of R, which is exactly when p is among
\* getRolePermissions(R).
C17_PermissionsAreInheritedUnion ==
    (polCall.op = "roleHasPermission" /\ Acyclic) =>
        /\ (polCall.result = "true") <=> ListedByAncestor(polCall.role, polCall.permission)
        /\ (polCall.result = "true") <=> polCall.permission \in Range(getRolePermissions(polCall.role))

\* an acyclic graph where the role asked about has the permission from an ancestor only
C17_Witness ==
    /\ polCall.op = "roleHasPermission"
    /\ Acyclic
    /\ polCall.result = "true"
    /\ polCall.role \in DOMAIN roles
    /\ polCall.permission \notin Range(roles[polCall.role].permissions)
    /\ roles[polCall.role].inherits # <<>>

-----------------------------------------------------------------------------
(* Claims about evaluate when no rule matches                                *)

\* the last call is an evaluate in which no rule of any policy matched
NoRuleMatched ==
    /\ polCall.op = "evaluate"
    /\ polCall.role \in DOMAIN roles =>
          allDecisions(policies, getEffectiveRoles(polCall.role),
                       polCall.functionName, polCall.functionVersion) = <<>>

\* the function asked about is registered and lists one of these roles as required
RequiresOneOf(roleSet) ==
    /\ polCall.functionName \in DOMAIN functions
    /\ Range(functions[polCall.functionName].requiredRoles) \cap roleSet # {}

DeniedNoMatchingRule ==
    /\ polCall.decision.allowed = FALSE
    /\ polCall.decision.reason = "no-matching-rule"

\* C18 as stated: when no rule of any policy matches, then without any policy
\* registered evaluate allows exactly when the requested role itself is among the
\* function's required roles, and with a policy registered it denies.
C18_FallbackOnRequestedRole ==
    NoRuleMatched =>
        IF policies = <<>>
        THEN polCall.decision.allowed <=> RequiresOneOf({polCall.role})
        ELSE DeniedNoMatchingRule

\* C18 amended: when no rule of any policy matches, then without any policy
\* registered evaluate allows exactly when the requested role is registered and it
\* or a role it inherits from is among the function's required roles; with a policy
\* registered it denies (no matching rule, or the role does not exist).
C18_FallbackOnEffectiveRoles ==
    NoRuleMatched =>
        IF policies = <<>>
        THEN polCall.decision.allowed <=>
                 (polCall.role \in DOMAIN roles /\ RequiresOneOf(Closure({polCall.role})))
        ELSE /\ polCall.decision.allowed = FALSE
             /\ polCall.role \in DOMAIN roles => DeniedNoMatchingRule

\* no policy: a role is allowed through a required role it only inherits
C18_Witness ==
    /\ NoRuleMatched
    /\ policies = <<>>
    /\ polCall.role \in DOMAIN roles
    /\ polCall.decision.allowed
    /\ ~RequiresOneOf({polCall.role})

\* a policy is registered, none of its rules matches and the role, though listed,
\* is denied
C18_DeniedThoughListed ==
    /\ NoRuleMatched
    /\ policies # <<>>
    /\ polCall.role \in DOMAIN roles
    /\ RequiresOneOf({polCall.role})
    /\ DeniedNoMatchingRule

-----------------------------------------------------------------------------
(* Claims about the version constraint of a rule                             *)

\* the version satisfies the rule's constraint, kind by kind
Satisfies(versionStr, constraint) ==
    /\ parseVersion(versionStr) # NullVersion
    /\ constraint.type = "stable-only" => parseVersion(versionStr).prerelease = <<>>
    /\ constraint.type = "specific" =>
          \E i \in 1..Len(constraint.versions) :
              /\ parseVersion(constraint.versions[i]) # NullVersion
              /\ parseVersion(constraint.versions[i]).major = parseVersion(versionStr).major
              /\ parseVersion(constraint.versions[i]).minor = parseVersion(versionStr).minor
              /\ parseVersion(constraint.versions[i]).patch = parseVersion(versionStr).patch
    /\ constraint.type = "range" =>
          /\ parseConstraint(constraint.range) # NullConstraint
          /\ satisfiesConstraint(parseVersion(versionStr), parseConstraint(constraint.range))

AllVersions(rule) == [rule EXCEPT !.versionConstraint = [type |-> "all"]]

\* C19: in an evaluate, a rule that carries a version constraint matches a request
\* that supplies a function version only if the version satisfies the constraint;
\* when the request supplies no version, the rule matches exactly when it would
\* with the constraint all-versions.
C19_ConstraintGatesTheMatch ==
    (polCall.op = "evaluate" /\ polCall.role \in DOMAIN roles) =>
        \A i \in 1..Len(policies) : \A j \in 1..Len(policies[i].rules) :
            /\ ( /\ policies[i].rules[j].versionConstraint # NoConstraint
                 /\ polCall.functionVersion # ""
                 /\ ruleMatches(policies[i].rules[j], getEffectiveRoles(polCall.role),
                                polCall.functionName, polCall.functionVersion) )
               => Satisfies(polCall.functionVersion, policies[i].rules[j].versionConstraint)
            /\ polCall.functionVersion = "" =>
                  ( ruleMatches(policies[i].rules[j], getEffectiveRoles(polCall.role),
                                polCall.functionName, "")
                    <=> ruleMatches(AllVersions(policies[i].rules[j]),
                                    getEffectiveRoles(polCall.role), polCall.functionName, "") )

\* a rule with a range matched a request whose version lies in the range, and the
\* decision is that rule's
C19_Witness ==
    /\ polCall.op = "evaluate"
    /\ polCall.role \in DOMAIN roles
    /\ polCall.functionVersion = "1.0.0"
    /\ polCall.decision.matchedRule # NoRule
    /\ polCall.decision.matchedRule.versionConstraint = [type |-> "range", range |-> ">=1.0.0 <2.0.0"]

-----------------------------------------------------------------------------
(* Claims about the effect handler registry                                *)

\* a step that is a call of execute
ExecuteStep == dispatched' = dispatched + 1

Invoked(c) == "handler.execute" \in Range(c.events)
Audited(c) == "audit" \in Range(c.events)
Sensitive(value) == value.type = "record" /\ value.classification \in {"confidential", "restricted"}
Redacted == [js |-> "string", value |-> "[REDACTED]"]

\* the strings a serialized value shows
RECURSIVE JsStrings(_)
JsStrings(js) ==
    CASE js.js = "string" -> {js.value}
      [] js.js = "object" /\ "fields" \in DOMAIN js ->
            UNION {JsStrings(js.fields[i].v) : i \in 1..Len(js.fields)}
      [] OTHER -> {}

\* C4: in a call of execute the handler's execute runs only after checkPermission,
\* called first with the call's operation and principal, answered true; when it answers
\* false the call throws, the handler's execute does not run, and the tables, the files
\* and the stored logs are what they were.
C4_ExecuteOnlyAfterPermission ==
    [][ExecuteStep =>
          /\ Invoked(effCall') =>
                /\ effCall'.events[1] = "checkPermission:true"
                /\ effCall'.events[2] = "handler.execute"
                /\ checkPermission(effCall'.handler, effCall'.operation, effCall'.principal)
          /\ (effCall'.handler \in handlers
              /\ ~checkPermission(effCall'.handler, effCall'.operation, effCall'.principal)) =>
                /\ effCall'.threw
                /\ ~Invoked(effCall')
                /\ UNCHANGED <<tables, files, logs>>]_vars

\* C4 witness: a db.write was refused while the table held a record, and the record stays.
C4_Witness ==
    /\ effCall.op = "execute"
    /\ effCall.handler = "db"
    /\ effCall.events[1] = "checkPermission:false"
    /\ effCall.threw
    /\ "users" \in DOMAIN tables


\* the audit entry the last call of execute appended
LastEntry == heap[Len(heap)]

\* C5 as stated: for every audited call and every parameter that is a record classified
\* confidential or restricted, the audit entry's params show each field of that record
\* as the literal "[REDACTED]".
C5_EachFieldShownRedacted ==
    (effCall.op = "execute" /\ Audited(effCall)) =>
        \A i \in 1..Len(effCall.params) :
            Sensitive(effCall.params[i]) =>
                /\ "fields" \in DOMAIN LastEntry.params[i]
                /\ Len(LastEntry.params[i].fields) = Len(effCall.params[i].fields)
                /\ \A j \in 1..Len(effCall.params[i].fields) :
                      /\ LastEntry.params[i].fields[j].k = effCall.params[i].fields[j].k
                      /\ LastEntry.params[i].fields[j].v = Redacted

\* C5 amended: for every audited call and every parameter that is a record classified
\* confidential or restricted: when the call's metadata carries no classification, the
\* entry shows the record's type name and each field as "[REDACTED]"; when the metadata
\* classification is internal the entry shows only {type: 'record'}; when it is
\* confidential or restricted the entry shows the whole parameter as "[REDACTED]"; in
\* every case no field value of the record is shown.
C5_NoFieldValueInAudit ==
    (effCall.op = "execute" /\ Audited(effCall)) =>
        \A i \in 1..Len(effCall.params) :
            Sensitive(effCall.params[i]) =>
                /\ effCall.metadata.classification \in {"", "public"} =>
                      /\ "fields" \in DOMAIN LastEntry.params[i]
                      /\ LastEntry.params[i].type = effCall.params[i].typeName
                      /\ Len(LastEntry.params[i].fields) = Len(effCall.params[i].fields)
                      /\ \A j \in 1..Len(effCall.params[i].fields) :
                            /\ LastEntry.params[i].fields[j].k = effCall.params[i].fields[j].k
                            /\ LastEntry.params[i].fields[j].v = Redacted
                /\ effCall.metadata.classification = "internal" =>
                      LastEntry.params[i] = [js |-> "object", type |-> "record"]
                /\ effCall.metadata.classification \in {"confidential", "restricted"} =>
                      LastEntry.params[i] = Redacted
                /\ \A j \in 1..Len(effCall.params[i].fields) :
                      effCall.params[i].fields[j].v.value \notin JsStrings(LastEntry.params[i])

\* C5 witness: an audited db.write of a confidential record under metadata without a
\* classification went through, and its entry shows the field as "[REDACTED]".
C5_Witness ==
    /\ effCall.op = "execute"
    /\ Audited(effCall)
    /\ ~effCall.threw
    /\ effCall.metadata.classification = ""
    /\ effCall.handler = "db"
    /\ Sensitive(effCall.params[3])
    /\ LastEntry.success
    /\ LastEntry.params[3].fields[1] = [k |-> "ssn", v |-> Redacted]

\* C6 as stated: when a log effect is dispatched with a message that is a record whose
\* own classification is confidential or restricted, the stored log entry's message is
\* the redaction marker and shows none of the record's field values, whatever the
\* call's metadata.
C6_LogMessageRedacted ==
    (/\ effCall.op = "execute"
     /\ effCall.handler = "log"
     /\ Invoked(effCall)
     /\ ~effCall.threw
     /\ Sensitive(effCall.params[1])) =>
        /\ logs[Len(logs)].message = toString(string("[REDACTED]"))
        /\ \A j \in 1..Len(effCall.params[1].fields) :
              effCall.params[1].fields[j].v.value \notin Range(logs[Len(logs)].message)

\* C8: for a call of execute on a registered handler that fails its permission check or
\* whose handler throws: when metadata.auditRequired is set exactly one entry is
\* appended, with success = false, and the throw comes right after the audit step; when
\* it is not set the audit log is left as it was.
C8_FailureAuditedOnceThenThrown ==
    [][(ExecuteStep /\ effCall'.handler \in handlers /\ effCall'.threw) =>
          IF effCall'.metadata.auditRequired
          THEN /\ Len(heap') = Len(heap) + 1
               /\ SubSeq(heap', 1, Len(heap)) = heap
               /\ auditLogs' = Append(auditLogs, Len(heap'))
               /\ heap'[Len(heap')].success = FALSE
               /\ heap'[Len(heap')].effect = effCall'.handler
               /\ heap'[Len(heap')].operation = effCall'.operation
               /\ \E n \in 1..(Len(effCall'.events) - 1) :
                     /\ effCall'.events[n] = "audit"
                     /\ effCall'.events[n + 1] = "throw"
                     /\ n + 1 = Len(effCall'.events)
          ELSE UNCHANGED <<heap, auditLogs>>]_vars

\* C8 witnesses: an audited call whose handler threw (an unknown log level), and its
\* failure entry is the last of the audit log.
C8_Witness ==
    /\ effCall.op = "execute"
    /\ Invoked(effCall)
    /\ effCall.threw
    /\ effCall.metadata.auditRequired
    /\ auditLogs # <<>>
    /\ heap[auditLogs[Len(auditLogs)]].success = FALSE
    /\ heap[auditLogs[Len(auditLogs)]].error = "Unknown log level"


\* the stored audit log: the entries AuditLogger.logs refers to, as they are now
StoredLog == [i \in 1..Len(auditLogs) |-> heap[auditLogs[i]]]

IsPrefix(a, b) == Len(a) <= Len(b) /\ SubSeq(b, 1, Len(a)) = a

\* C7 as stated: in every step that is not an explicit clear, the stored audit log keeps
\* its entries as they were and in their order, a call of execute that audits appends
\* its entry last, and nothing the caller does with the array getAuditLogs returned
\* changes the stored log.
C7_AuditLogAppendOnly ==
    [][clearAuditLogs \/
          /\ IsPrefix(StoredLog, StoredLog')
          /\ (ExecuteStep /\ Audited(effCall')) =>
                /\ Len(StoredLog') = Len(StoredLog) + 1
                /\ StoredLog'[Len(StoredLog')].operation = effCall'.operation
          /\ ~ExecuteStep => StoredLog' = StoredLog]_vars

-----------------------------------------------------------------------------
(* Claims about the version registry                                       *)

\* the entities now registered under a name
RegisteredEntities(name) == {chainOf(name).versions[k] : k \in DOMAIN chainOf(name).versions}

\* r is an entity of the set whose version no entity of the set exceeds; nothing if the set is empty
IsMaximumOf(r, entities) ==
    IF entities = {} THEN r = NoEntity
    ELSE /\ r \in entities
         /\ \A e \in entities : compareVersions(r.version, e.version) \in {0, 1}

\* C9 as stated: after any sequence of register calls getLatestStable(name) returns an
\* entity whose stability is stable and whose version is the maximum among the entities
\* now registered under the name with stability stable, and nothing exactly when there
\* is none.
C9_LatestStableIsMaximumStable ==
    verCall.op = "getLatestStable" =>
        IsMaximumOf(verCall.result, {e \in RegisteredEntities(verCall.name) : e.stability = "stable"})

\* C10: after any sequence of register calls getLatest(name) returns an entity now
\* registered under the name whose version none of the registered versions exceeds
\* (a release above its prereleases, the build left out of the comparison), and
\* nothing when none is registered.
C10_LatestIsMaximum ==
    verCall.op = "getLatest" => IsMaximumOf(verCall.result, RegisteredEntities(verCall.name))

\* C10 witness: after three calls of register the prerelease 1.0.0-beta and the release
\* 1.0.0+b7 are registered and getLatest answered with the release.
C10_Witness ==
    /\ verCall.op = "getLatest"
    /\ verCall.result # NoEntity
    /\ verCall.result.version = parseVersion("1.0.0+b7")
    /\ versionKey(parseVersion("1.0.0-beta")) \in DOMAIN chainOf(verCall.name).versions
    /\ registers = 3

\* C11 as stated: in every state reached by register calls, a registered version B whose
\* replaces names a registered version A has A.replacedBy = B's version, and no two
\* registered versions replace the same version.
C11_ReplacementChainLinear ==
    \A name \in DOMAIN chains :
        /\ \A b \in RegisteredEntities(name) :
              (b.replaces # NullVersion /\ versionKey(b.replaces) \in DOMAIN chains[name].versions)
              => /\ chains[name].versions[versionKey(b.replaces)].replacedBy # NullVersion
                 /\ versionKey(chains[name].versions[versionKey(b.replaces)].replacedBy)
                      = versionKey(b.version)
        /\ \A b \in RegisteredEntities(name), c \in RegisteredEntities(name) :
              (b.replaces # NullVersion /\ c.replaces # NullVersion
               /\ versionKey(b.replaces) = versionKey(c.replaces)) => b = c

\* C12 as stated: for every constraint kind resolve(name, c) returns a registered
\* entity whose version satisfies c and which no registered satisfying version of the
\* name exceeds, and nothing exactly when no registered version satisfies c.
C12_ResolveIsMaximumSatisfying ==
    verCall.op = "resolve" =>
        IsMaximumOf(verCall.result,
                    {e \in RegisteredEntities(verCall.name) :
                        satisfiesConstraint(e.version, verCall.constraint)})

-----------------------------------------------------------------------------
(* Claims about the chain walks                                             *)

\* no two versions of the list compare Equal
NoRepeats(chain) ==
    \A i, j \in DOMAIN chain : i # j => compareVersions(chain[i], chain[j]) # 0

\* C24: in every state of the registry that register calls reach, replaces pointing at
\* the version itself and at one another included, getReplacementChain returns from
\* every version, with a list that repeats no version (the list buildPath walks), and so
\* hasMigrationPath returns.
C24_ReplacementChainReturns ==
    \A version \in Released :
        /\ replacementWalk("greet", version).returns
        /\ NoRepeats(replacementWalk("greet", version).chain)
        /\ replacementWalk("greet", version).chain = getReplacementChain("greet", version)
        /\ hasMigrationPath("greet", version, parseVersion("3.0.0")).returns

\* 1.0.0 and 2.0.0 each replace the other, and a replacement chain of two versions or
\* more has been walked
C24_Witness ==
    /\ get("greet", parseVersion("1.0.0")) # NoEntity
    /\ get("greet", parseVersion("2.0.0")) # NoEntity
    /\ get("greet", parseVersion("1.0.0")).replaces = parseVersion("2.0.0")
    /\ get("greet", parseVersion("2.0.0")).replaces = parseVersion("1.0.0")
    /\ verCall.op = "getReplacementChain"
    /\ verCall.answer.returns
    /\ Len(verCall.answer.chain) >= 2

\* C25 as stated: in every state of the registry that register calls reach,
\* getPredecessorChain returns from every version.
C25_PredecessorChainReturns ==
    \A version \in Released : getPredecessorChain("greet", version).returns

-----------------------------------------------------------------------------
(* Claims about migration paths                                            *)

\* The versions reached from the call's fromVersion by following replacedBy
Walk(c) == getReplacementChain(c.functionName, c.fromVersion)
\* A migration is registered between the walk's i-th version and the next
Migrated(c, i) ==
    \E j \in 1..Len(migrationsOf(c.functionName)) :
        /\ compareVersions(migrationsOf(c.functionName)[j].fromVersion, Walk(c)[i]) = 0
        /\ compareVersions(migrationsOf(c.functionName)[j].toVersion, Walk(c)[i + 1]) = 0
\* Where the walk reaches the call's toVersion after one or more steps
Reached(c) == {k \in 2..Len(Walk(c)) : compareVersions(Walk(c)[k], c.toVersion) = 0}
\* The last version of the walk that buildPath has to get to
Goal(c) ==
    IF Reached(c) = {} THEN Len(Walk(c))
    ELSE CHOOSE k \in Reached(c) : \A j \in Reached(c) : k <= j
\* The pairs before the goal that have no migration
Gaps(c) == {i \in 1..(Goal(c) - 1) : ~Migrated(c, i)}
\* The steps are the first n pairs of the walk
StepsArePairs(c, n) ==
    /\ Len(c.path.steps) = n
    /\ \A i \in 1..Len(c.path.steps) :
          i < Len(Walk(c)) /\ c.path.steps[i].fromVersion = Walk(c)[i]
                           /\ c.path.steps[i].toVersion = Walk(c)[i + 1]

PathAsClaimed(c) ==
    /\ c.path.isComplete <=> (Reached(c) # {} /\ Gaps(c) = {})
    /\ c.path.isComplete =>
          /\ StepsArePairs(c, Goal(c) - 1)
          /\ c.path.steps[1].fromVersion = c.fromVersion
          /\ \A i \in 1..(Len(c.path.steps) - 1) :
                c.path.steps[i].toVersion = c.path.steps[i + 1].fromVersion
          /\ compareVersions(c.path.steps[Len(c.path.steps)].toVersion, c.toVersion) = 0
    /\ Gaps(c) # {} =>
          /\ ~c.path.isComplete
          /\ StepsArePairs(c, (CHOOSE i \in Gaps(c) : \A j \in Gaps(c) : i <= j) - 1)

\* C13: buildPath answers isComplete = true exactly when toVersion is reached from
\* fromVersion over one or more replacedBy links and every pair on the way has a
\* registered migration; the steps are then contiguous from fromVersion to toVersion.
\* When a pair on the way lacks a migration, isComplete is false and the steps are
\* exactly the pairs before the first such pair.
C13_BuildPathComplete ==
    [][ (migCall'.op = "buildPath" /\ UNCHANGED <<verVars, migrations>>)
        => PathAsClaimed(migCall') ]_vars

\* buildPath(1.0.0, 3.0.0) over 1.0.0 -> 2.0.0 -> 3.0.0 with both migrations registered:
\* complete, in two steps
C13_Witness ==
    /\ migCall.op = "buildPath"
    /\ migCall.path.isComplete
    /\ Len(migCall.path.steps) = 2
    /\ migCall.fromVersion = parseVersion("1.0.0") /\ migCall.toVersion = parseVersion("3.0.0")

\* C30 as stated: every step of a path that buildPath gives as complete uses a
\* migration whose validated flag is set; a migration registered and never validated
\* completes no path.
C30_CompletePathIsValidated ==
    (migCall.op = "buildPath" /\ migCall.path.isComplete)
        => \A i \in DOMAIN migCall.path.steps : migCall.path.steps[i].migration.validated

-----------------------------------------------------------------------------
(* Claims about the compiler context                                         *)

\* the codes of the diagnostics of one severity among those emitted for an element
Codes(emitted, severity) ==
    {emitted[i].code : i \in {j \in 1..Len(emitted) : emitted[j].severity = severity}}

\* the registry holds this very function under its version
Present(cs, fn) ==
    /\ fn.name \in DOMAIN cs
    /\ parseVersion(fn.version) # NullVersion
    /\ versionKey(parseVersion(fn.version)) \in DOMAIN cs[fn.name].versions
    /\ cs[fn.name].versions[versionKey(parseVersion(fn.version))].node = fn

\* C14: after registerModule, a versioned function of the module is in the version
\* registry if and only if no diagnostic of severity error was emitted for it during
\* the call.
C14_RegisteredIffNoError ==
    [][ ctxCall'.op = "registerModule" /\ ctxCall' # ctxCall =>
          \A i \in 1..Len(ctxCall'.module.elements) :
              ctxCall'.module.elements[i].version # "" =>
                  (Present(chains', ctxCall'.module.elements[i])
                      <=> Codes(ctxCall'.results[i].emitted, "error") = {}) ]_vars

\* the replaced version of fn as the registry has it, or NoEntity
predecessor(fn) ==
    IF Len(fn.replaces) > 0 /\ parseVersion(fn.version) # NullVersion
       /\ parseVersion(fn.replaces[1]) # NullVersion
    THEN get(fn.name, parseVersion(fn.replaces[1]))
    ELSE NoEntity

\* the predecessor is found, the change is breaking and the major did not go up
BreakingWithoutMajor(fn) ==
    /\ predecessor(fn) # NoEntity
    /\ determineCompatibilityLevel(breakingChanges(predecessor(fn).node, fn)) = "breaking"
    /\ parseVersion(fn.version).major <= predecessor(fn).version.major

\* C15: registerModule emits a VER003 error for a function exactly when the version
\* it replaces is found in the registry, the change is classified breaking and the
\* new major is not greater than the predecessor's, lower included.
C15_VER003WhenMajorNotGreater ==
    [][ ctxCall'.op = "registerModule" /\ ctxCall' # ctxCall =>
          \A i \in 1..Len(ctxCall'.module.elements) :
              ("VER003" \in Codes(ctxCall'.results[i].emitted, "error"))
                  <=> BreakingWithoutMajor(ctxCall'.module.elements[i]) ]_vars

\* the diagnostics of the breaking-change check among those emitted
OfBreakingChange(emitted) == SelectSeq(emitted, LAMBDA d : d.code \in {"VER003", "VER004"})

\* C29 as stated: when 1.0.0 and a version that replaces it are the elements of one
\* module, registered by one call into a registry that holds neither, the call emits
\* for the replacing version the VER003 and VER004 diagnostics that a call of its own
\* emits for it once 1.0.0 is registered.
C29_SameDiagnosticsInOneModule ==
    [][ ( /\ ctxCall'.op = "registerModule" /\ ctxCall' # ctxCall
          /\ chains = <<>>
          /\ Len(ctxCall'.module.elements) = 2
          /\ ctxCall'.module.elements[1] = First
          /\ ctxCall'.module.elements[2].replaces = <<First.version>>
          /\ parseVersion(ctxCall'.module.elements[2].version) # NullVersion )
        => OfBreakingChange(ctxCall'.results[2].emitted)
             = replacementDiagnostics(ctxCall'.module.elements[2],
                                      versioned(First, parseVersion(First.version))) ]_vars

-----------------------------------------------------------------------------
(* Claims about the virtual machine                                        *)

\* A step that is a call of VM.execute, or a CALL instruction
ExecuteEntry == executes' = executes + 1
CallEntry == vmCall'.op = "CALL" /\ Len(vmTrace') = Len(vmTrace) + 1
\* The function that step tried to enter
Entered == functionsGet(vmModule', vmCall'.fn)
\* It exists, and VM.execute was handed as many arguments as it takes
Resolved ==
    /\ ExecuteEntry \/ CallEntry
    /\ Entered # NoFunction
    /\ ExecuteEntry => Len(vmCall'.args) = Entered.arity
LacksRoles ==
    /\ Len(Entered.requiredRoles) > 0
    /\ Range(Entered.requiredRoles) \cap Range(vmPrincipal'.roles) = {}

\* C2: a function entered through VM.execute or a CALL raises SecurityError exactly
\* when it declares required roles and the principal's roles hold none of them; then
\* no frame is made for it and no instruction runs afterwards.  Otherwise (so always
\* for a function with no required roles) its frame starts at ip 0 with the arguments.
C2_SecurityGate ==
    [][ /\ Resolved =>
            /\ (vmStatus' = "threw" /\ vmResult'.error = "SecurityError") <=> LacksRoles
            /\ LacksRoles => Len(vmFrames') <= Len(vmFrames)
            /\ ~LacksRoles => /\ vmStatus' = "running"
                              /\ Len(vmFrames') > 0
                              /\ vmFrames'[Len(vmFrames')] = frame(vmCall'.fn, vmCall'.args)
        /\ (vmStatus = "threw" /\ ~ExecuteEntry) => vmTrace' = vmTrace ]_vars

\* A nested CALL was refused: the callee requires roles, the principal has roles, none
\* of them is required; the caller's instructions are the only ones that ran.
C2_Witness ==
    /\ vmCall.op = "CALL"
    /\ vmStatus = "threw" /\ vmResult.error = "SecurityError"
    /\ Len(vmPrincipal.roles) > 0
    /\ vmCall.fn = key("access_data", "1.0.0")
    /\ \A i \in 1..Len(vmTrace) : vmTrace[i].fn = key("report", "1.0.0")

\* The policy evaluator allows the principal the function: for one of the principal's
\* roles, evaluate({role, functionName, functionVersion}) is allowed, with the version
\* given or left out.  A principal without roles makes no request that can be denied.
PolicyAllows(fnKey) ==
    \/ vmPrincipal.roles = <<>>
    \/ \E role \in Range(vmPrincipal.roles), functionVersion \in {"", "1.0.0"} :
          evaluate(role, functionsGet(vmModule, fnKey).name, functionVersion).allowed

\* C3: the VM consults the policy evaluator before every function entry and every
\* EXEC_EFFECT: a function in whose frame the VM runs, and a function whose effect
\* was dispatched, is one the policy evaluator allows the principal.
C3_PolicyEvaluatorConsulted ==
    /\ \A i \in 1..Len(vmFrames) : PolicyAllows(vmFrames[i].fn)
    /\ vmCall.op = "EXEC_EFFECT" => PolicyAllows(vmCall.fn)

\* A step in which a CALL instruction enters its callee, and one in which a callee
\* hands its result to the caller
CalleeEntered == vmCall'.op = "CALL" /\ Len(vmFrames') = Len(vmFrames) + 1
CalleeReturned == vmCall'.op = "return" /\ Len(vmFrames) >= 2 /\ Len(vmFrames') = Len(vmFrames) - 1
\* the operand stack the caller of the innermost frame had left under the arguments
callerStack == vmCallers[Len(vmCallers)]

\* C20: a nested CALL runs the callee in a fresh frame: ip 0, no locals, the popped
\* arguments and an empty operand stack.  While the callee runs, the caller's
\* operands stay as they are, out of the callee's reach; when it returns, the
\* caller's stack is the one it had before the call with the arguments replaced by
\* exactly one result.
C20_CalleeRunsInFreshFrame ==
    [][ /\ CalleeEntered =>
            /\ vmFrames'[Len(vmFrames')] = frame(vmCall'.fn, vmCall'.args)
            /\ vmStack' = <<>>
        /\ CalleeReturned =>
            /\ Len(vmStack') = Len(callerStack) + 1
            /\ SubSeq(vmStack', 1, Len(callerStack)) = callerStack ]_vars

\* the CALL instruction that has just run, while vmCall still tells of it
calledBy == functionsGet(vmModule, vmTrace[Len(vmTrace)].fn).instructions[vmTrace[Len(vmTrace)].ip + 1]
VersionOmitted ==
    /\ vmCall.op = "CALL" /\ vmCall.fn # <<>>
    /\ calledBy.operand.version = ""

\* C21: a CALL whose version is omitted enters the function of that name with the
\* maximum semantic version, in whatever order the versions were put into the
\* module's function map.
C21_CallWithoutVersionTakesMaximum ==
    VersionOmitted =>
        \A i \in 1..Len(versionsOf(vmModule, calledBy.operand.name)) :
            compareVersions(functionsGet(vmModule, vmCall.fn).version,
                            functionsGet(vmModule,
                                         versionsOf(vmModule, calledBy.operand.name)[i]).version) >= 0

-----------------------------------------------------------------------------
(* Claims about concurrent executions                                        *)

\* An execution run by itself: its frames, stack and outcome after one more step,
\* and after as many steps as it takes.  The handlers are the ones registered; what
\* they return to the calls made here does not depend on what they hold.
aloneTop(r) == r.frames[Len(r.frames)]
aloneInstr(module, r) == functionsGet(module, aloneTop(r).fn).instructions[aloneTop(r).ip + 1]
aloneThrew(r, error, message) == [r EXCEPT !.status = "threw", !.result = Settled(error, message, unit)]
aloneOutcome(operand, params, principal) ==
    IF operand.handler \notin handlers THEN Threw("Unknown effect handler")
    ELSE IF ~checkPermission(operand.handler, operand.operation, principal)
    THEN Threw("Permission denied")
    ELSE handlerExecute(operand.handler, operand.operation, params, principal,
                        [auditRequired |-> operand.auditRequired, classification |-> ""])
aloneCallee(module, operand) ==
    IF operand.version # "" THEN key(operand.name, operand.version)
    ELSE findLatestFunction(module, operand.name)

aloneReturn(r) ==
    IF Len(r.frames) = 1
    THEN [frames |-> <<>>, stack |-> remaining(r.stack, 1), status |-> "returned",
          result |-> Settled("", "", IF r.stack # <<>> THEN r.stack[Len(r.stack)] ELSE unit)]
    ELSE [r EXCEPT !.frames = advanced(SubSeq(r.frames, 1, Len(r.frames) - 1)),
                   !.stack = Append(remaining(r.stack, 1),
                                    IF r.stack # <<>> THEN r.stack[Len(r.stack)] ELSE unit)]

aloneCall(module, principal, r, operand) ==
    IF operand.version = "" /\ versionsOf(module, operand.name) = <<>>
    THEN aloneThrew(r, "VMError", "Function not found")
    ELSE IF functionsGet(module, aloneCallee(module, operand)) = NoFunction
    THEN aloneThrew(r, "VMError", "Function not found")
    ELSE IF ~checkSecurity(functionsGet(module, aloneCallee(module, operand)), principal)
    THEN aloneThrew(r, "SecurityError", "Permission denied")
    ELSE [r EXCEPT !.frames = Append(r.frames, frame(aloneCallee(module, operand),
                                                     popped(r.stack, operand.arity))),
                   !.stack = remaining(r.stack, operand.arity)]

aloneEffect(principal, r, operand) ==
    IF aloneOutcome(operand, popped(r.stack, operand.paramCount), principal).threw
    THEN aloneThrew(r, "Error", aloneOutcome(operand, popped(r.stack, operand.paramCount), principal).error)
    ELSE [r EXCEPT !.frames = advanced(r.frames),
                   !.stack = Append(remaining(r.stack, operand.paramCount),
                                    aloneOutcome(operand, popped(r.stack, operand.paramCount),
                                                 principal).value)]

aloneStep(module, principal, r) ==
    IF aloneTop(r).halted \/ aloneTop(r).ip >= Len(functionsGet(module, aloneTop(r).fn).instructions)
    THEN aloneReturn(r)
    ELSE CASE aloneInstr(module, r).opcode = "PUSH" ->
                [r EXCEPT !.frames = advanced(r.frames),
                          !.stack = Append(r.stack, aloneInstr(module, r).operand)]
           [] aloneInstr(module, r).opcode = "LOAD_ARG" ->
                IF aloneInstr(module, r).operand >= Len(aloneTop(r).args)
                THEN aloneThrew(r, "VMError", "Argument index out of bounds")
                ELSE [r EXCEPT !.frames = advanced(r.frames),
                               !.stack = Append(r.stack,
                                                aloneTop(r).args[aloneInstr(module, r).operand + 1])]
           [] aloneInstr(module, r).opcode = "RETURN" ->
                [r EXCEPT !.frames = advanced([r.frames EXCEPT ![Len(r.frames)].halted = TRUE])]
           [] aloneInstr(module, r).opcode = "CALL" ->
                aloneCall(module, principal, r, aloneInstr(module, r).operand)
           [] aloneInstr(module, r).opcode = "EXEC_EFFECT" ->
                aloneEffect(principal, r, aloneInstr(module, r).operand)

RECURSIVE aloneRun(_, _, _)
aloneRun(module, principal, r) ==
    IF r.status # "running" THEN r.result ELSE aloneRun(module, principal, aloneStep(module, principal, r))

\* what VM.execute of the function the outermost frame runs settles with by itself
alone(module, principal, entry) ==
    aloneRun(module, principal,
             [frames |-> <<frame(entry.fn, entry.args)>>, stack |-> <<>>,
              status |-> "running", result |-> Pending])

\* a step in which the execution that runs settles
Settles ==
    /\ vmStatus = "running" /\ vmStatus' \in {"returned", "threw"}
    /\ vmCall'.op \notin {"execute", "resume"}

\* C22: executions started on one VM and interleaved at their awaits share neither
\* operand stack nor locals nor arguments: each settles with what it settles with
\* when it runs alone.
C22_SettlesAsAlone ==
    [][ Settles => vmResult' = alone(vmModule, vmPrincipal, vmFrames[1]) ]_vars

\* an execution has returned that ran while another, which has run instructions and
\* holds operands of its own, waits
C22_Witness ==
    /\ vmStatus = "returned"
    /\ vmTrace # <<>>
    /\ vmSuspended # <<>>
    /\ vmSuspended[1].trace # <<>>
    /\ vmSuspended[1].stack # <<>>

-----------------------------------------------------------------------------
(* Claims about queries after registration                                  *)

\* What registration builds: the version registry, the migrations, the modules of the
\* context and the security context
builtByRegistration == <<chains, registers, migrations, modules, roles, policies, functions>>

\* C23 as stated: a query or an execution leaves everything registration built, and the
\* diagnostics the context has accumulated, as they were.
C23_QueriesChangeNothing ==
    [][ Queries => UNCHANGED <<builtByRegistration, diagnostics>> ]_vars

\* a resolution that found no version, by the answer it gave
FailedResolution(code) ==
    /\ ctxCall'.op = "resolveFunctionVersion"
    /\ ctxCall'.result = NoEntity
    /\ code = IF parseConstraint(ctxCall'.constraint) = NullConstraint
              THEN "VER008" ELSE "VER009"

\* C23: a query or an execution leaves everything registration built as it was, and the
\* diagnostics too, but for resolveFunctionVersion: when the constraint does not parse or
\* no version satisfies it, the context's diagnostics gain one error, VER008 or VER009.
C23_QueriesChangeOnlyDiagnostics ==
    [][ Queries =>
          /\ UNCHANGED builtByRegistration
          /\ \/ UNCHANGED diagnostics
             \/ \E code \in {"VER008", "VER009"} :
                   /\ FailedResolution(code)
                   /\ diagnostics' = Append(diagnostics, Diagnostic("error", code)) ]_vars

\* greet is registered, a resolution of it has failed and left its error, and what was
\* registered is there still
C23_Witness ==
    /\ "greet" \in DOMAIN chains
    /\ ctxCall.op = "resolveFunctionVersion"
    /\ ctxCall.result = NoEntity
    /\ diagnostics # <<>>
    /\ diagnostics[Len(diagnostics)].code \in {"VER008", "VER009"}
    /\ modules # <<>>

-----------------------------------------------------------------------------
(* Claims about compiled functions                                          *)

\* The role is not among the function's required roles, and one it inherits from is
AccessByAncestor(roleName, functionName) ==
    /\ functionName \in DOMAIN functions
    /\ roleName \notin Range(functions[functionName].requiredRoles)
    /\ \E requiredRole \in Range(functions[functionName].requiredRoles) :
          roleInheritsFrom(roleName, requiredRole)

\* C26 as stated: when canRoleAccessFunction(R, f) holds because an ancestor of R is
\* among f's required roles, VM.execute of f for a principal whose only role is R does
\* not stop at the security gate.
C26_AncestorPassesTheGate ==
    [][ ( /\ ExecuteEntry
          /\ Entered # NoFunction
          /\ Len(vmCall'.args) = Entered.arity
          /\ Len(vmPrincipal'.roles) = 1
          /\ canRoleAccessFunction(vmPrincipal'.roles[1], Entered.name) = "true"
          /\ AccessByAncestor(vmPrincipal'.roles[1], Entered.name) )
        => vmResult'.error # "SecurityError" ]_vars

\* the function of the source whose code is running
sourceOf(fnKey) == Source[CHOOSE i \in 1..Len(Source) : key(Source[i].name, Source[i].version) = fnKey]

\* C27 as stated: an effect call in the body of a function declared audit-required is
\* dispatched with auditRequired set, and the registry appends an audit entry for it.
C27_AuditedEffectIsAudited ==
    [][ ( /\ vmStatus = "running"
          /\ dispatched' = dispatched + 1
          /\ sourceOf(top.fn).auditRequired )
        => /\ effCall'.metadata.auditRequired
           /\ Len(auditLogs') = Len(auditLogs) + 1 ]_vars

\* C28 as stated: when the outermost function comes to its final RETURN the stack holds
\* its result and nothing else.
C28_OnlyTheResultAtReturn ==
    ( /\ vmStatus = "running"
      /\ Len(vmFrames) = 1
      /\ top.ip < Len(currentFunction.instructions) /\ ~top.halted
      /\ instr.opcode = "RETURN" )
    => Len(vmStack) = 1

=============================================================================
